---- MODULE Spec2Model ----
(***************************************************************************)
(* State machine of the quiz editor: the App component's store             *)
(* (src/unnamed/part_000), the QuizDisplay actions                         *)
(* (src/components/QuizDisplay.tsx), the QuestionEditorCard local state    *)
(* (src/unnamed/part_003) and the response parser of the AI service        *)
(* (src/services/geminiService.ts).                                        *)
(*                                                                         *)
(* Every handler is one action.  An action takes a flag ui: with ui = TRUE *)
(* the handler fires only when the element that triggers it is rendered    *)
(* and enabled (the JSX conditions), with ui = FALSE the handler is        *)
(* invoked in any state and only its own early returns apply.              *)
(***************************************************************************)
EXTENDS Integers, Sequences, FiniteSets, Bags, TLC

\* ------------------------------------------------------------------ bounds
\* identifiers crypto.randomUUID hands out during one run
MaxId == 5
\* AI requests in flight at the same time
MaxPending == 1
\* AI requests in flight at the same time when requests overlap
MaxOverlap == 2
\* questions in the list (all on the first page of QuizDisplay)
MaxQuizLen == 3
\* questions in the list, and identifiers, when the list has several pages
MaxPagedLen == 11
MaxPagedId == 11
\* change events (typing, toggling, deleting an option) in the cards of the
\* page, and in the cards when their handlers are called on their own
MaxEdits == 1
MaxCardEdits == 3
\* characters of the text of a question in a spelled-out response
MaxBodyLen == 3
\* processed files of the settings of a request
MaxProcessedFiles == 2
\* files of one selection in the file input
MaxNewFiles == 2

VARIABLES
  quizSettings,            \* App: QuizSettings | null
  editableQuiz,            \* App: QuizQuestion[]
  isLoading,               \* App
  isAddingMoreQuestions,   \* App
  error,                   \* App: string | null
  isQuizValidated,         \* App
  regeneratingQuestionId,  \* App: string | null (0 is null)
  pending,                 \* bag of AI requests awaiting their response
  nextUuid,                \* next identifier crypto.randomUUID returns
  editors,                 \* QuestionEditorCard state of each rendered card
  edits,                   \* number of change events so far
  lastOp,                  \* the handler that ran last, its outcome, its file
  currentPage,             \* QuizDisplay
  questionsPerPage,        \* QuizDisplay
  selectedFiles,           \* QuizForm: File[]
  contents,                \* contents of the last generateContent request
  jsonString               \* response.text handed to parseGeneratedQuiz

vars == <<quizSettings, editableQuiz, isLoading, isAddingMoreQuestions, error,
          isQuizValidated, regeneratingQuestionId, pending, nextUuid, editors,
          edits, lastOp, selectedFiles, contents, jsonString, currentPage,
          questionsPerPage>>

\* ------------------------------------------------------------- null values
NullSettings == [null |-> TRUE]
NullId == 0
NullError == "null"
NoFile == [file |-> FALSE]
NoContents == [none |-> TRUE]

\* --------------------------------------------------------------- the types
\* QuizOption and QuizQuestion of types.ts
QuizOption(id, text, isCorrect) ==
  [id |-> id, text |-> text, isCorrect |-> isCorrect]

QuizQuestion(id, questionText, options, isMultipleChoice) ==
  [id |-> id, questionText |-> questionText, options |-> options,
   isMultipleChoice |-> isMultipleChoice]

\* ----------------------------------------------------------- list helpers
\* Array.prototype.filter(x => x.id !== id)
RemoveById(s, id) == SelectSeq(s, LAMBDA x : x.id # id)

\* Array.prototype.findIndex on the id, 1-based; 0 when no element matches
FindIndexById(s, id) ==
  IF \E i \in 1..Len(s) : s[i].id = id
  THEN CHOOSE i \in 1..Len(s) :
         s[i].id = id /\ \A j \in 1..(i - 1) : s[j].id # id
  ELSE 0

\* Array.prototype.splice(at, 0, x): x becomes the element at 1-based at + 1
InsertAt(s, at, x) == SubSeq(s, 1, at) \o <<x>> \o SubSeq(s, at + 1, Len(s))

IdsOf(s) == {s[i].id : i \in 1..Len(s)}

CorrectCount(options) ==
  Cardinality({i \in 1..Len(options) : options[i].isCorrect})

\* String.prototype.trim on the texts of the model
Trim(s) == IF s = " " THEN "" ELSE s

\* ------------------------------------------------ the AI service responses
\* A JSON scalar of the response is a string of the model: "true", "false",
\* "undefined" (the key is missing), or a text.
JOption(text, isCorrect) ==
  [isObject |-> TRUE, text |-> text, isCorrect |-> isCorrect]

\* a null element of an options array: reading a property of it throws
JNullOption ==
  [isObject |-> FALSE, text |-> "undefined", isCorrect |-> "undefined"]

JQuestion(questionText, optionsIsArray, options, isMultipleChoice) ==
  [isObject |-> TRUE, questionText |-> questionText,
   optionsIsArray |-> optionsIsArray, options |-> options,
   isMultipleChoice |-> isMultipleChoice]

\* a null element of the array: reading a property of it throws
JNullElement ==
  [isObject |-> FALSE, questionText |-> "undefined", optionsIsArray |-> FALSE,
   options |-> <<>>, isMultipleChoice |-> "undefined"]

\* the question objects a response may hold
JWellFormedSingle ==
  JQuestion("Q", TRUE,
            <<JOption("a", "false"), JOption("b", "true"),
              JOption("c", "false"), JOption("d", "false")>>, "false")
JMultiOneCorrect ==
  JQuestion("Q", TRUE, <<JOption("a", "true"), JOption("b", "false")>>, "true")
JSingleTwoCorrect ==
  JQuestion("Q", TRUE, <<JOption("a", "true"), JOption("b", "true")>>, "false")
JNoOptions == JQuestion("", FALSE, <<>>, "false")
JMissingFields ==
  JQuestion("undefined", TRUE,
            <<JOption("undefined", "undefined"), JOption("", "x")>>,
            "undefined")
JTruthyFlag == JQuestion("Q", FALSE, <<>>, "x")
JWithNullOption ==
  JQuestion("Q", TRUE, <<JOption("a", "true"), JNullOption>>, "false")

\* response.text of the service: a rejected call, an undefined text, a text
\* that is not JSON, a JSON value that is not an array, or a JSON array
Response(kind, body) == [kind |-> kind, body |-> body]

JArrays ==
  { <<>>, <<JWellFormedSingle>>, <<JMultiOneCorrect>>, <<JSingleTwoCorrect>>,
    <<JNoOptions>>, <<JNullElement>>,
    <<JNoOptions, JSingleTwoCorrect>>,
    <<JNoOptions, JMultiOneCorrect, JNoOptions>> }

Responses ==
  { Response("reject", <<>>), Response("undefined", <<>>),
    Response("notjson", <<>>), Response("nonarray", <<>>) }
    \cup { Response("array", a) : a \in JArrays }

\* JSON arrays whose elements lack keys, hold values of other types, or are
\* null
MapArrays ==
  JArrays \cup { <<JMissingFields>>, <<JTruthyFlag>>, <<JWithNullOption>>,
                 <<JTruthyFlag, JMissingFields>>,
                 <<JMultiOneCorrect, JNullElement>> }

MapResponses == { Response("array", a) : a \in MapArrays }

\* !!v of a JSON scalar
Truthy(v) == v \notin {"false", "undefined", ""}

\* v || fallback of a JSON text
OrElse(v, fallback) == IF Truthy(v) THEN v ELSE fallback

RECURSIVE MapOptions(_, _)
\* q.options.map(opt => ({id: crypto.randomUUID(), text, isCorrect}))
MapOptions(options, uuid) ==
  IF options = <<>> THEN <<>>
  ELSE <<QuizOption(uuid, OrElse(Head(options).text, "Option vide"),
                    Truthy(Head(options).isCorrect))>>
       \o MapOptions(Tail(options), uuid + 1)

\* mutant: the fallback text numbers the questions from 0
MapQuestionFromZero(q, index, uuid) ==
  QuizQuestion(uuid,
               OrElse(q.questionText,
                      "Question " \o ToString(index) \o " sans texte"),
               IF q.optionsIsArray THEN MapOptions(q.options, uuid + 1)
               ELSE <<>>,
               Truthy(q.isMultipleChoice))

\* the arrow function of parsed.map: one QuizQuestion from one array element
MapQuestion(q, index, uuid) ==
  QuizQuestion(uuid,
               OrElse(q.questionText,
                      "Question " \o ToString(index + 1) \o " sans texte"),
               IF q.optionsIsArray THEN MapOptions(q.options, uuid + 1)
               ELSE <<>>,
               Truthy(q.isMultipleChoice))

RECURSIVE MapQuestionsOneUuid(_, _, _)
\* mutant: every question of a response gets the same identifier
MapQuestionsOneUuid(parsed, index, uuid) ==
  IF parsed = <<>> THEN <<>>
  ELSE <<MapQuestion(Head(parsed), index, uuid)>>
         \o MapQuestionsOneUuid(Tail(parsed), index + 1, uuid)

RECURSIVE MapQuestions(_, _, _)
\* parsed.map((q, index) => ...), identifiers drawn in evaluation order
MapQuestions(parsed, index, uuid) ==
  IF parsed = <<>> THEN <<>>
  ELSE LET q == MapQuestion(Head(parsed), index, uuid)
       IN  <<q>> \o MapQuestions(Tail(parsed), index + 1,
                                 uuid + 1 + Len(q.options))

\* ------------------------------------------------ the text of a response
\* A text is a sequence of characters.  The characters of the model are the
\* backtick, the backslash, the space, the line feed, the brackets, a digit,
\* the letters below, and six runs of characters that hold the JSON syntax
\* of a response and stand as one element each.
QuestionOpen == "[{\"questionText\":\""
OptionOpen == "\",\"options\":[{\"text\":\""
QuestionClose == "\"}]"
OptionClose == "\",\"isCorrect\":true}]}]"
ObjectText == "{}"
NullArrayText == "[null]"

Letters == {"a", "f", "j", "s", "o", "n", "J", "S", "O", "N"}

Whitespace == {" ", "\n"}

\* no response text was handed to the parser
NoText == <<"undefined">>

toLowerCase(text) ==
  [i \in 1..Len(text) |->
     CASE text[i] = "J" -> "j" [] text[i] = "S" -> "s"
       [] text[i] = "O" -> "o" [] text[i] = "N" -> "n"
       [] OTHER -> text[i]]

startsWith(text, prefix) ==
  Len(text) >= Len(prefix) /\ SubSeq(text, 1, Len(prefix)) = prefix

endsWith(text, suffix) ==
  /\ Len(text) >= Len(suffix)
  /\ SubSeq(text, Len(text) - Len(suffix) + 1, Len(text)) = suffix

RECURSIVE trimStart(_)
trimStart(text) ==
  IF text # <<>> /\ Head(text) \in Whitespace THEN trimStart(Tail(text))
  ELSE text

RECURSIVE trimEnd(_)
trimEnd(text) ==
  IF text # <<>> /\ text[Len(text)] \in Whitespace
  THEN trimEnd(SubSeq(text, 1, Len(text) - 1))
  ELSE text

\* String.prototype.trim
trim(text) == trimEnd(trimStart(text))

\* the backtick, a character a TLA+ string cannot hold
Backtick == "<backtick>"

Fence == <<Backtick, Backtick, Backtick>>

\* mutant: the flag i of the regular expression is missing
fenceRegexCaseSensitive(text) ==
  IF ~(Len(text) >= 6 /\ startsWith(text, Fence) /\ endsWith(text, Fence))
  THEN [matched |-> FALSE, group |-> <<>>]
  ELSE LET inner == SubSeq(text, 4, Len(text) - 3)
           tagged == startsWith(inner, <<"j", "s", "o", "n">>)
           rest == IF tagged THEN SubSeq(inner, 5, Len(inner)) ELSE inner
       IN  [matched |-> TRUE, group |-> trimEnd(trimStart(rest))]

\* text.match(/^```(?:json)?\s*\n?(.*?)\n?\s*```$/is): whether it matches and
\* its group 1.  The optional tag and \s* are greedy, so the group starts at
\* the first character that is not whitespace; (.*?) is lazy, so it ends at
\* the last character that \n?\s* before the closing fence cannot take.
fenceRegex(text) ==
  IF ~(Len(text) >= 6 /\ startsWith(text, Fence) /\ endsWith(text, Fence))
  THEN [matched |-> FALSE, group |-> <<>>]
  ELSE LET inner == SubSeq(text, 4, Len(text) - 3)
           tagged == startsWith(toLowerCase(inner), <<"j", "s", "o", "n">>)
           rest == IF tagged THEN SubSeq(inner, 5, Len(inner)) ELSE inner
       IN  [matched |-> TRUE, group |-> trimEnd(trimStart(rest))]

\* cleanJsonString of parseGeneratedQuiz
cleanJsonString(text) ==
  LET trimmed == trim(text)
      match == fenceRegex(trimmed)
  IN  IF match.matched /\ match.group # <<>> THEN trim(match.group)
      ELSE trimmed

\* the length of the run of letters text starts with
RECURSIVE LetterRun(_)
LetterRun(text) ==
  IF text # <<>> /\ Head(text) \in Letters THEN 1 + LetterRun(Tail(text))
  ELSE 0

\* mutant: the flag g of the regular expression is missing, only the first
\* match is replaced
RECURSIVE processedJsonStringFirstOnly(_)
processedJsonStringFirstOnly(text) ==
  IF text = <<>> THEN <<>>
  ELSE IF Head(text) = "\\" /\ LetterRun(Tail(text)) >= 2
  THEN <<"\\", "\\">> \o Tail(text)
  ELSE <<Head(text)>> \o processedJsonStringFirstOnly(Tail(text))

\* cleanJsonString.replace(/\\([a-zA-Z]{2,})/g, '\\\\$1'): a backslash that
\* two or more letters follow is doubled, the scan goes on after the letters
RECURSIVE processedJsonString(_)
processedJsonString(text) ==
  IF text = <<>> THEN <<>>
  ELSE IF Head(text) = "\\" /\ LetterRun(Tail(text)) >= 2
  THEN LET n == LetterRun(Tail(text))
       IN  <<"\\", "\\">> \o SubSeq(text, 2, n + 1)
             \o processedJsonString(SubSeq(text, n + 2, Len(text)))
  ELSE <<Head(text)>> \o processedJsonString(Tail(text))

\* the characters JSON allows unescaped inside a string literal
PlainChars == Letters \cup {"1", " ", Backtick, "[", "]"}

\* JSON.parse of the characters of a string literal: [ok, text].  \\, \f and
\* \n are escapes (form feed and line feed are written <FF> and <LF>); any
\* other escape, a raw line feed and a raw quote end the parse.
RECURSIVE JSONString(_)
JSONString(chars) ==
  IF chars = <<>> THEN [ok |-> TRUE, text |-> ""]
  ELSE IF Head(chars) = "\\"
  THEN IF Len(chars) >= 2 /\ chars[2] \in {"\\", "f", "n"}
       THEN LET rest == JSONString(SubSeq(chars, 3, Len(chars)))
                char == CASE chars[2] = "\\" -> "\\"
                          [] chars[2] = "f" -> "<FF>"
                          [] chars[2] = "n" -> "<LF>"
            IN  [ok |-> rest.ok, text |-> char \o rest.text]
       ELSE [ok |-> FALSE, text |-> ""]
  ELSE IF Head(chars) \in PlainChars
  THEN LET rest == JSONString(Tail(chars))
       IN  [ok |-> rest.ok, text |-> Head(chars) \o rest.text]
  ELSE [ok |-> FALSE, text |-> ""]

\* the first position of char in text; 0 when it is not there
IndexOf(text, char) ==
  IF \E i \in 1..Len(text) : text[i] = char
  THEN CHOOSE i \in 1..Len(text) :
         text[i] = char /\ \A j \in 1..(i - 1) : text[j] # char
  ELSE 0

\* JSON.parse of a text, as the response it amounts to: an empty array, an
\* object or a number, an array of null, an array of one question without
\* options or with one option, or a SyntaxError
JSONParse(text) ==
  LET t == trim(text)
      n == Len(t)
      mid == IndexOf(t, OptionOpen)
  IN  IF n >= 2 /\ t[1] = "[" /\ t[n] = "]"
         /\ \A i \in 2..(n - 1) : t[i] \in Whitespace
      THEN Response("array", <<>>)
      ELSE IF t \in {<<ObjectText>>, <<"1">>}
      THEN Response("nonarray", <<>>)
      ELSE IF t = <<NullArrayText>> THEN Response("array", <<JNullElement>>)
      ELSE IF n >= 2 /\ t[1] = QuestionOpen /\ t[n] = QuestionClose
      THEN LET q == JSONString(SubSeq(t, 2, n - 1))
           IN  IF q.ok
               THEN Response("array",
                             <<JQuestion(q.text, FALSE, <<>>, "undefined")>>)
               ELSE Response("notjson", <<>>)
      ELSE IF n >= 3 /\ t[1] = QuestionOpen /\ t[n] = OptionClose /\ mid > 1
      THEN LET q == JSONString(SubSeq(t, 2, mid - 1))
               o == JSONString(SubSeq(t, mid + 1, n - 1))
           IN  IF q.ok /\ o.ok
               THEN Response("array",
                             <<JQuestion(q.text, TRUE,
                                         <<JOption(o.text, "true")>>,
                                         "undefined")>>)
               ELSE Response("notjson", <<>>)
      ELSE Response("notjson", <<>>)

\* parsed.map throws a TypeError, which the catch block turns into null:
\* an element is null, or an element of an options array is
MapThrows(parsed) ==
  \E i \in 1..Len(parsed) :
    \/ ~parsed[i].isObject
    \/ /\ parsed[i].optionsIsArray
       /\ \E j \in 1..Len(parsed[i].options) :
            ~parsed[i].options[j].isObject

\* parseGeneratedQuiz: [threw, isNull, questions].  A response of kind
\* "text" holds the characters of response.text; the other kinds stand for
\* what JSON.parse makes of a text that is not spelled out.
parseGeneratedQuiz(response, uuid) ==
  LET parsed == IF response.kind = "text"
                THEN JSONParse(processedJsonString(
                                 cleanJsonString(response.body)))
                ELSE response
  IN  IF response.kind = "undefined"
      THEN [threw |-> TRUE, isNull |-> TRUE, questions |-> <<>>]
      ELSE IF parsed.kind = "array" /\ ~MapThrows(parsed.body)
      THEN [threw |-> FALSE, isNull |-> FALSE,
            questions |-> MapQuestions(parsed.body, 0, uuid)]
      ELSE [threw |-> FALSE, isNull |-> TRUE, questions |-> <<>>]

\* the identifiers the parse of a response consumes
RECURSIVE UuidsUsed(_)
UuidsUsed(questions) ==
  IF questions = <<>> THEN 0
  ELSE 1 + Len(Head(questions).options) + UuidsUsed(Tail(questions))

\* generateQuiz / generateMoreQuestions: [threw, isNull, questions]
generateQuiz(response, uuid) ==
  IF response.kind = "reject"
  THEN [threw |-> TRUE, isNull |-> TRUE, questions |-> <<>>]
  ELSE parseGeneratedQuiz(response, uuid)

generateMoreQuestions(response, uuid) == generateQuiz(response, uuid)

\* generateAlternativeQuestion: the first parsed question, or null
generateAlternativeQuestion(response, uuid) ==
  LET r == generateQuiz(response, uuid)
  IN  IF r.threw \/ r.isNull \/ r.questions = <<>>
      THEN [threw |-> r.threw, isNull |-> TRUE, questions |-> <<>>]
      ELSE [threw |-> FALSE, isNull |-> FALSE,
            questions |-> <<r.questions[1]>>]

\* ------------------------------------------------- double-precision numbers
\* A positive double is [digits, exp]: its significand of 53 binary digits,
\* as the digit 1 followed by four digits of 13 binary digits each, and its
\* exponent: its value is 1.f * 2^exp.  Zero has the digits 0.
Limb == 8192

Zero == [digits |-> <<0, 0, 0, 0, 0>>, exp |-> 0]

\* the number of binary digits of a positive integer
BitLength(n) == CHOOSE b \in 1..30 : 2^(b - 1) <= n /\ n < 2^b

\* the digits of the quotient of digits by divisor, and the remainder
RECURSIVE LongDivide(_, _, _)
LongDivide(digits, divisor, remainder) ==
  IF digits = <<>> THEN [digits |-> <<>>, remainder |-> remainder]
  ELSE LET current == remainder * Limb + Head(digits)
           rest == LongDivide(Tail(digits), divisor, current % divisor)
       IN  [digits |-> <<current \div divisor>> \o rest.digits,
            remainder |-> rest.remainder]

\* digits times n plus carry; the first digit takes the last carry
RECURSIVE TimesDigits(_, _, _)
TimesDigits(n, digits, carry) ==
  LET sum == n * digits[Len(digits)] + carry
  IN  IF Len(digits) = 1 THEN <<sum>>
      ELSE TimesDigits(n, SubSeq(digits, 1, Len(digits) - 1),
                       sum \div Limb) \o <<sum % Limb>>

\* digits plus one
AddOne(digits) == TimesDigits(1, digits, 1)

\* digits without their last d binary digits
ShiftRight(digits, d) ==
  [i \in 1..Len(digits) |->
     (digits[i] \div 2^d)
       + (IF i > 1 THEN (digits[i - 1] % 2^d) * (Limb \div 2^d) ELSE 0)]

\* the double nearest to digits * 2^(exp - 52), whose first digit may be
\* larger than 1: ties go to the even significand
RoundToDouble(digits, exp) ==
  IF digits[1] = 0 THEN Zero
  ELSE LET d == BitLength(digits[1]) - 1
           kept == ShiftRight(digits, d)
           dropped == digits[Len(digits)] % 2^d
           up == /\ d > 0
                 /\ \/ 2 * dropped > 2^d
                    \/ 2 * dropped = 2^d /\ kept[Len(kept)] % 2 = 1
           rounded == IF up THEN AddOne(kept) ELSE kept
       IN  IF rounded[1] > 1
           THEN [digits |-> ShiftRight(rounded, 1), exp |-> exp + d + 1]
           ELSE [digits |-> rounded, exp |-> exp + d]

\* the double of numerator / divisor, for 0 <= numerator <= divisor < 128
Divide(numerator, divisor) ==
  IF numerator = 0 THEN Zero
  ELSE LET k == CHOOSE k \in 0..7 :
                  /\ numerator * 2^k >= divisor
                  /\ k > 0 => numerator * 2^(k - 1) < divisor
           quotient == LongDivide(<<numerator * 2^k, 0, 0, 0, 0>>, divisor, 0)
           up == 2 * quotient.remainder > divisor
                   \/ /\ 2 * quotient.remainder = divisor
                      /\ quotient.digits[5] % 2 = 1
       IN  RoundToDouble(IF up THEN AddOne(quotient.digits)
                         ELSE quotient.digits, 0 - k)

\* the double of n * x, n being a positive integer
Multiply(n, x) == RoundToDouble(TimesDigits(n, x.digits, 0), x.exp)

\* Math.round of a double below 4096 that is not negative: the nearest
\* integer, a half upwards
MathRound(x) ==
  IF x = Zero \/ x.exp < 0 - 1 THEN 0
  ELSE IF x.exp = 0 - 1 THEN 1
  ELSE 2^x.exp + (x.digits[2] \div 2^(13 - x.exp))
         + ((x.digits[2] \div 2^(12 - x.exp)) % 2)

\* Math.round(numQuestions * (multipleChoicePercentage / 100))
numMultipleChoiceQuestions(numQuestions, multipleChoicePercentage) ==
  MathRound(Multiply(numQuestions, Divide(multipleChoicePercentage, 100)))

\* --------------------------------------------------- the request contents
\* ProcessedFile of types.ts
ProcessedFile(name, type, originalType, content) ==
  [name |-> name, type |-> type, originalType |-> originalType,
   content |-> content]

\* settings.processedFiles, an optional field: [defined, files]
processedFilesOf(settings) ==
  IF "processedFiles" \in DOMAIN settings
  THEN [defined |-> TRUE, files |-> settings.processedFiles]
  ELSE [defined |-> FALSE, files |-> <<>>]

\* the text of a prompt, which the model does not spell out
Prompt == "prompt"

\* the prompt of a quiz, with the two counts it states
PromptFor(numMultipleChoice, numSingleChoice) ==
  Prompt \o " multiples: " \o ToString(numMultipleChoice)
         \o " unique: " \o ToString(numSingleChoice)

\* basePrompt of generateQuiz and of generateMoreQuestions for n questions;
\* settings whose percentage the model leaves out give the prompt it does
\* not spell out
basePromptOf(settings, n) ==
  IF "multipleChoicePercentage" \in DOMAIN settings
  THEN LET numMultipleChoice ==
             numMultipleChoiceQuestions(n, settings.multipleChoicePercentage)
           numSingleChoice == n - numMultipleChoice
       IN  PromptFor(numMultipleChoice, numSingleChoice)
  ELSE Prompt

\* numNewQuestions of handleAddMoreQuestions
numNewQuestions == 10

\* a string handed to generateContent as its contents
StringContents(prompt) == [isString |-> TRUE, text |-> prompt]

InlineDataPart(file) ==
  [inlineData |-> [mimeType |-> file.type, data |-> file.content]]

\* mutant: the test of file.content is missing
buildContentPartsAnyImage(basePrompt, processedFiles) ==
  LET images == IF processedFiles.defined
                THEN SelectSeq(processedFiles.files,
                               LAMBDA file : file.originalType = "image")
                ELSE <<>>
      contentParts == <<[text |-> basePrompt]>>
                        \o [i \in 1..Len(images) |-> InlineDataPart(images[i])]
      hasImageFiles == images # <<>>
  IN  IF hasImageFiles THEN [isString |-> FALSE, parts |-> contentParts]
      ELSE StringContents(basePrompt)

\* buildContentParts: the prompt string, or {parts} when an image was pushed
buildContentParts(basePrompt, processedFiles) ==
  LET images == IF processedFiles.defined
                THEN SelectSeq(processedFiles.files,
                               LAMBDA file : /\ file.originalType = "image"
                                             /\ file.content # "")
                ELSE <<>>
      contentParts == <<[text |-> basePrompt]>>
                        \o [i \in 1..Len(images) |-> InlineDataPart(images[i])]
      hasImageFiles == images # <<>>
  IN  IF hasImageFiles THEN [isString |-> FALSE, parts |-> contentParts]
      ELSE StringContents(basePrompt)

\* response.text as parseGeneratedQuiz receives it, when it is spelled out
TextOf(response) ==
  IF response.kind = "text" THEN response.body ELSE NoText

\* ------------------------------------------------ the spelled-out responses
\* the characters of the question and option texts of a response
BodyChars == {"\\", "f", "a", "1"}

Bodies == UNION { [1..n -> BodyChars] : n \in 0..MaxBodyLen }

OptionBodies ==
  { <<"a">>, <<"\\", "f", "a">>, <<"\\", "a", "f">>, <<"\\", "a">> }

\* a JSON array of one question without options, or with one option
QuestionDocument(body) == <<QuestionOpen>> \o body \o <<QuestionClose>>

QuestionOptionDocument(body, optionBody) ==
  <<QuestionOpen>> \o body \o <<OptionOpen>> \o optionBody \o <<OptionClose>>

Documents ==
  { QuestionDocument(body) : body \in Bodies }
    \cup { QuestionOptionDocument(body, optionBody) :
             body \in Bodies, optionBody \in OptionBodies }

\* the letters of a LaTeX command of the model
Commands == { <<"f", "a">>, <<"a", "f">>, <<"n", "a">>, <<"a">> }

\* texts in which every LaTeX command is written with a doubled backslash,
\* as the prompt asks: characters, a command, characters
DoubledBodies ==
  { before \o <<"\\", "\\">> \o command \o after :
      before \in {<<>>, <<"a">>, <<"1", " ">>}, command \in Commands,
      after \in {<<>>, <<"1">>, <<" ", "a">>} }

DoubledDocuments ==
  { QuestionDocument(body) : body \in DoubledBodies }
    \cup { QuestionOptionDocument(body, optionBody) :
             body \in {<<"a">>, <<"\\", "\\", "f", "a">>},
             optionBody \in DoubledBodies }

\* what a response holds between its code fences
FenceContents ==
  { <<>>, <<" ">>, <<"[", "]">>, <<"[", "\n", "]">>, <<ObjectText>>,
    <<NullArrayText>>, <<"1">>,
    QuestionDocument(<<"\\", "f", "a">>),
    QuestionOptionDocument(<<"a">>, <<"\\", "f", "a">>),
    <<"j", "s", "o", "n", "[", "]">>,
    <<" ", "[", "]", "\n">>,
    Fence \o <<"[", "]">>,
    Fence \o <<"[", "]">> \o Fence }

\* a code fence: padded by whitespace or not, its tag, the whitespace after
\* the tag and the whitespace before the closing fence
Wrappers ==
  [padded : BOOLEAN,
   tag : {<<>>, <<"j", "s", "o", "n">>, <<"J", "S", "O", "N">>,
          <<"J", "s", "o", "n">>},
   after : {<<>>, <<"\n">>, <<" ", "\n">>},
   before : {<<>>, <<"\n">>, <<"\n", " ">>}]

Wrap(w, content) ==
  LET pad == IF w.padded THEN <<" ">> ELSE <<>>
  IN  pad \o Fence \o w.tag \o w.after \o content \o w.before \o Fence
        \o pad

\* response.text of the responses that are spelled out
JsonStrings ==
  Documents \cup FenceContents
    \cup { Wrap(w, content) : w \in Wrappers, content \in FenceContents }

TextResponses == { Response("text", text) : text \in JsonStrings }

\* ------------------------------------------------------ the form's settings
\* QuizSettings submitted by QuizForm (handleSubmit accepts numQuestions > 0)
Settings == { [numQuestions |-> n] : n \in {1, 2} }

\* QuizSettings with the two numbers of the form: numQuestions from 1 to
\* 50, multipleChoicePercentage from 0 to 100 in steps of 5
NumQuestionsTyped == {1, 3, 10, 25, 45, 50}
PercentagesTyped == {0, 25, 50, 55, 70, 100}
CountSettings ==
  { [numQuestions |-> n, multipleChoicePercentage |-> p] :
      n \in NumQuestionsTyped, p \in PercentagesTyped }

\* the files handleSubmit may pass, and one of a type it filters out
ProcessedFiles ==
  { ProcessedFile("t", "text/plain", "txt", "data"),
    ProcessedFile("p", "application/pdf", "pdf", "data"),
    ProcessedFile("i", "image/png", "image", "data"),
    ProcessedFile("j", "image/jpeg", "image", "data"),
    ProcessedFile("e", "image/png", "image", ""),
    ProcessedFile("u", "", "unknown", "") }

\* QuizSettings with processedFiles
FileSettings ==
  { [numQuestions |-> 1, processedFiles |-> files] :
      files \in UNION { [1..n -> ProcessedFiles] :
                          n \in 0..MaxProcessedFiles } }

\* the texts a user types into a card
Texts == {" ", "x"}

\* ------------------------------------------------------- requests in flight
Request(kind, id) == [kind |-> kind, id |-> id]

InFlight(r) == BagIn(r, pending)

Await(r) == pending (+) SetToBag({r})

Settle(r) == pending (-) SetToBag({r})

CanAwait(cap) == BagCardinality(pending) < cap

\* --------------------------------------------------- the rendered cards
QuestionById(quiz, id) == quiz[FindIndexById(quiz, id)]

\* useState initialisers and the useEffect on [question] of a card
FreshEditor(question) ==
  [editedQuestionText |-> question.questionText,
   editedOptions |-> question.options]

\* ------------------------------------------------------- QuizDisplay
\* the page size of a QuizDisplay that mounts, and those its select offers
INITIAL_QUESTIONS_PER_PAGE == 5
PageSizes == {5, 10, 20, 50}

\* Math.ceil(quiz.length / questionsPerPage)
totalPagesOf(quiz, perPage) == (Len(quiz) + perPage - 1) \div perPage

totalPages == totalPagesOf(editableQuiz, questionsPerPage)

\* quiz.slice(indexOfFirstQuestion, indexOfLastQuestion)
currentQuestions(quiz, page, perPage) ==
  LET indexOfLastQuestion == page * perPage
      indexOfFirstQuestion == indexOfLastQuestion - perPage
  IN  IF indexOfFirstQuestion >= Len(quiz) THEN <<>>
      ELSE SubSeq(quiz, indexOfFirstQuestion + 1,
                  IF indexOfLastQuestion < Len(quiz)
                  THEN indexOfLastQuestion ELSE Len(quiz))

\* The cards after a render of quiz, those of the questions of the page the
\* render shows: a card is keyed by the question id; it keeps its state
\* while its question object is the same, and the objects in replaced are
\* new ones.
RenderCards(quiz, replaced) ==
  [id \in IdsOf(currentQuestions(quiz, currentPage', questionsPerPage')) |->
     IF id \in DOMAIN editors /\ id \notin replaced
     THEN editors[id]
     ELSE FreshEditor(QuestionById(quiz, id))]

\* the useEffect on [quiz, questionsPerPage] after a render in which quiz is
\* a new array or not
PageAfter(newQuiz) == IF newQuiz THEN 1 ELSE currentPage

\* QuizDisplay passes these to each card
isReadOnly == isQuizValidated \/ isAddingMoreQuestions \/ isLoading

isRegenerating(id) == regeneratingQuestionId = id

CardRendered(id) == id \in DOMAIN editors

\* the handler that ran last, its outcome and the file it produced
Op(op, outcome) == [op |-> op, outcome |-> outcome, file |-> NoFile]

\* ------------------------------------------------------------------- Init
Init ==
  /\ quizSettings = NullSettings
  /\ editableQuiz = <<>>
  /\ isLoading = FALSE
  /\ isAddingMoreQuestions = FALSE
  /\ error = NullError
  /\ isQuizValidated = FALSE
  /\ regeneratingQuestionId = NullId
  /\ pending = EmptyBag
  /\ nextUuid = 1
  /\ editors = [id \in {} |-> FreshEditor(QuizQuestion(id, "", <<>>, FALSE))]
  /\ edits = 0
  /\ lastOp = Op("init", "done")
  /\ selectedFiles = <<>>
  /\ contents = NoContents
  /\ jsonString = NoText
  /\ currentPage = 1
  /\ questionsPerPage = INITIAL_QUESTIONS_PER_PAGE

\* ------------------------------------------------------- App: generation
\* handleGenerateQuiz up to its await
HandleGenerateQuizUpTo(cap, ui, settings) ==
  /\ ui => ~isLoading
  /\ CanAwait(cap)
  /\ isLoading' = TRUE
  /\ error' = NullError
  /\ editableQuiz' = <<>>
  /\ quizSettings' = settings
  /\ isQuizValidated' = FALSE
  /\ regeneratingQuestionId' = NullId
  /\ isAddingMoreQuestions' = FALSE
  /\ pending' = Await(Request("generate", NullId))
  /\ currentPage' = 1
  /\ questionsPerPage' = INITIAL_QUESTIONS_PER_PAGE
  /\ editors' = RenderCards(<<>>, {})
  /\ lastOp' = Op("handleGenerateQuiz", "awaiting")
  /\ contents' = buildContentParts(
                    basePromptOf(settings, settings.numQuestions),
                    processedFilesOf(settings))
  /\ jsonString' = NoText
  /\ UNCHANGED <<nextUuid, edits, selectedFiles>>

\* handleGenerateQuiz up to its await, while requests do not overlap
HandleGenerateQuiz(ui, settings) ==
  HandleGenerateQuizUpTo(MaxPending, ui, settings)

\* handleGenerateQuiz from the settled generateQuiz call to its end
GenerateQuizSettledWithin(maxId, maxLen, response) ==
  LET r == generateQuiz(response, nextUuid)
      ok == ~r.threw /\ ~r.isNull /\ Len(r.questions) > 0
      quiz == IF ok THEN r.questions ELSE editableQuiz
  IN  /\ InFlight(Request("generate", NullId))
      /\ nextUuid + UuidsUsed(r.questions) - 1 <= maxId
      /\ Len(quiz) <= maxLen
      /\ pending' = Settle(Request("generate", NullId))
      /\ nextUuid' = nextUuid + UuidsUsed(r.questions)
      /\ editableQuiz' = quiz
      /\ currentPage' = PageAfter(ok)
      /\ UNCHANGED questionsPerPage
      /\ editors' = RenderCards(quiz, {})
      /\ error' = IF r.threw THEN "generate: failed"
                  ELSE IF ok THEN error ELSE "generate: failed"
      /\ isLoading' = FALSE
      /\ lastOp' = Op("generateQuizSettled",
                      IF r.threw THEN "threw"
                      ELSE IF ok THEN "set" ELSE "empty")
      /\ jsonString' = TextOf(response)
      /\ UNCHANGED <<quizSettings, isAddingMoreQuestions, isQuizValidated,
                     regeneratingQuestionId, edits, selectedFiles, contents>>

\* the same while the list fits the first page
GenerateQuizSettled(response) ==
  GenerateQuizSettledWithin(MaxId, MaxQuizLen, response)

\* ------------------------------------------------- App: update and delete
\* mutant: the test of the map inverted
ReplaceByIdInverted(prevQuiz, updatedQuestion) ==
  [i \in 1..Len(prevQuiz) |->
     IF prevQuiz[i].id # updatedQuestion.id THEN updatedQuestion
     ELSE prevQuiz[i]]

\* prevQuiz.map(q => (q.id === updatedQuestion.id ? updatedQuestion : q))
ReplaceById(prevQuiz, updatedQuestion) ==
  [i \in 1..Len(prevQuiz) |->
     IF prevQuiz[i].id = updatedQuestion.id THEN updatedQuestion
     ELSE prevQuiz[i]]

\* handleUpdateQuestion: the list it leaves
handleUpdateQuestion(updatedQuestion) ==
  IF isQuizValidated THEN editableQuiz
  ELSE ReplaceById(editableQuiz, updatedQuestion)

\* handleUpdateQuestion called on its own
HandleUpdateQuestion(updatedQuestion) ==
  /\ editableQuiz' = handleUpdateQuestion(updatedQuestion)
  /\ currentPage' = PageAfter(~isQuizValidated)
  /\ UNCHANGED questionsPerPage
  /\ editors' = RenderCards(editableQuiz',
                            IF isQuizValidated THEN {}
                            ELSE {updatedQuestion.id})
  /\ lastOp' = Op("handleUpdateQuestion",
                  IF isQuizValidated THEN "ignored"
                  ELSE IF updatedQuestion.id \in IdsOf(editableQuiz)
                       THEN "replaced" ELSE "absent")
  /\ UNCHANGED <<quizSettings, isLoading, isAddingMoreQuestions, error,
                 isQuizValidated, regeneratingQuestionId, pending, nextUuid,
                 edits, selectedFiles, contents, jsonString>>

\* mutant: the test of the filter inverted
handleDeleteQuestionKeepOnly(questionId) ==
  IF isQuizValidated THEN editableQuiz
  ELSE SelectSeq(editableQuiz, LAMBDA q : q.id = questionId)

\* handleDeleteQuestion: the list it leaves
handleDeleteQuestion(questionId) ==
  IF isQuizValidated THEN editableQuiz
  ELSE RemoveById(editableQuiz, questionId)

\* the delete button of a card, or handleDeleteQuestion called on its own
HandleDeleteQuestion(ui, questionId) ==
  /\ ui => /\ CardRendered(questionId)
           /\ ~isReadOnly
           /\ ~isRegenerating(questionId)
  /\ editableQuiz' = handleDeleteQuestion(questionId)
  /\ currentPage' = PageAfter(~isQuizValidated)
  /\ UNCHANGED questionsPerPage
  /\ editors' = RenderCards(editableQuiz', {})
  /\ lastOp' = Op("handleDeleteQuestion",
                  IF isQuizValidated THEN "ignored"
                  ELSE IF questionId \in IdsOf(editableQuiz)
                       THEN "removed" ELSE "absent")
  /\ UNCHANGED <<quizSettings, isLoading, isAddingMoreQuestions, error,
                 isQuizValidated, regeneratingQuestionId, pending, nextUuid,
                 edits, selectedFiles, contents, jsonString>>

\* --------------------------------------------------- App: regeneration
\* handleRegenerateAlternativeQuestion up to its await
HandleRegenerateAlternativeQuestionUpTo(cap, ui, originalQuestionId) ==
  /\ ui => /\ CardRendered(originalQuestionId)
           /\ ~isReadOnly
           /\ ~isRegenerating(originalQuestionId)
  /\ IF isQuizValidated \/ quizSettings = NullSettings
     THEN /\ lastOp' = Op("handleRegenerateAlternativeQuestion", "ignored")
          /\ UNCHANGED <<regeneratingQuestionId, error, pending, contents,
                         jsonString>>
     ELSE IF FindIndexById(editableQuiz, originalQuestionId) = 0
     THEN /\ error' = "regenerate: failed"
          /\ lastOp' = Op("handleRegenerateAlternativeQuestion", "absent")
          /\ UNCHANGED <<regeneratingQuestionId, pending, contents,
                         jsonString>>
     ELSE /\ CanAwait(cap)
          /\ regeneratingQuestionId' = originalQuestionId
          /\ error' = NullError
          /\ pending' = Await(Request("regenerate", originalQuestionId))
          /\ lastOp' = Op("handleRegenerateAlternativeQuestion", "awaiting")
          /\ contents' = StringContents(Prompt)
          /\ jsonString' = NoText
  /\ UNCHANGED <<quizSettings, editableQuiz, isLoading, isAddingMoreQuestions,
                 isQuizValidated, nextUuid, editors, edits, selectedFiles,
                 currentPage, questionsPerPage>>

\* handleRegenerateAlternativeQuestion up to its await, while requests do
\* not overlap
HandleRegenerateAlternativeQuestion(ui, originalQuestionId) ==
  HandleRegenerateAlternativeQuestionUpTo(MaxPending, ui, originalQuestionId)

\* mutant: splice(originalIndex, 1, newQuestion), the original is replaced
ReplaceOriginal(prevQuiz, originalQuestionId, newQuestion) ==
  LET originalIndex == FindIndexById(prevQuiz, originalQuestionId)
  IN  IF originalIndex = 0 THEN prevQuiz
      ELSE [prevQuiz EXCEPT ![originalIndex] = newQuestion]

\* the updater passed to setEditableQuiz when the alternative arrived
InsertAfterOriginal(prevQuiz, originalQuestionId, newQuestion) ==
  LET originalIndex == FindIndexById(prevQuiz, originalQuestionId)
  IN  IF originalIndex = 0 THEN prevQuiz
      ELSE InsertAt(prevQuiz, originalIndex, newQuestion)

\* mutant: setRegeneratingQuestionId(null) stands at the end of the try
\* block, not in a finally block
RegenerateSettledNoFinally(originalQuestionId, response) ==
  LET all == generateQuiz(response, nextUuid)
      r == generateAlternativeQuestion(response, nextUuid)
      quiz == IF ~r.threw /\ ~r.isNull
              THEN InsertAfterOriginal(editableQuiz, originalQuestionId,
                                       r.questions[1])
              ELSE editableQuiz
  IN  /\ InFlight(Request("regenerate", originalQuestionId))
      /\ nextUuid + UuidsUsed(all.questions) - 1 <= MaxId
      /\ Len(quiz) <= MaxQuizLen
      /\ pending' = Settle(Request("regenerate", originalQuestionId))
      /\ nextUuid' = nextUuid + UuidsUsed(all.questions)
      /\ editableQuiz' = quiz
      /\ currentPage' = PageAfter(quiz # editableQuiz)
      /\ UNCHANGED questionsPerPage
      /\ editors' = RenderCards(quiz, {})
      /\ error' = IF r.threw THEN "regenerate: failed"
                  ELSE IF r.isNull THEN "regenerate: failed" ELSE error
      /\ regeneratingQuestionId' = IF r.threw THEN regeneratingQuestionId
                                 ELSE NullId
      /\ lastOp' = Op("regenerateSettled",
                      IF r.threw THEN "threw"
                      ELSE IF r.isNull THEN "empty"
                      ELSE IF quiz = editableQuiz THEN "absent"
                      ELSE "inserted")
      /\ jsonString' = TextOf(response)
      /\ UNCHANGED <<quizSettings, isLoading, isAddingMoreQuestions,
                     isQuizValidated, edits, selectedFiles, contents>>

\* handleRegenerateAlternativeQuestion from the settled call to its end
RegenerateSettled(originalQuestionId, response) ==
  LET all == generateQuiz(response, nextUuid)
      r == generateAlternativeQuestion(response, nextUuid)
      quiz == IF ~r.threw /\ ~r.isNull
              THEN InsertAfterOriginal(editableQuiz, originalQuestionId,
                                       r.questions[1])
              ELSE editableQuiz
  IN  /\ InFlight(Request("regenerate", originalQuestionId))
      /\ nextUuid + UuidsUsed(all.questions) - 1 <= MaxId
      /\ Len(quiz) <= MaxQuizLen
      /\ pending' = Settle(Request("regenerate", originalQuestionId))
      /\ nextUuid' = nextUuid + UuidsUsed(all.questions)
      /\ editableQuiz' = quiz
      /\ currentPage' = PageAfter(quiz # editableQuiz)
      /\ UNCHANGED questionsPerPage
      /\ editors' = RenderCards(quiz, {})
      /\ error' = IF r.threw THEN "regenerate: failed"
                  ELSE IF r.isNull THEN "regenerate: failed" ELSE error
      /\ regeneratingQuestionId' = NullId
      /\ lastOp' = Op("regenerateSettled",
                      IF r.threw THEN "threw"
                      ELSE IF r.isNull THEN "empty"
                      ELSE IF quiz = editableQuiz THEN "absent"
                      ELSE "inserted")
      /\ jsonString' = TextOf(response)
      /\ UNCHANGED <<quizSettings, isLoading, isAddingMoreQuestions,
                     isQuizValidated, edits, selectedFiles, contents>>

\* ------------------------------------------------------ App: add more
\* handleAddMoreQuestions up to its await
HandleAddMoreQuestionsUpTo(cap, ui) ==
  /\ ui => /\ Len(editableQuiz) > 0
           /\ ~(isQuizValidated \/ isAddingMoreQuestions \/ isLoading)
  /\ IF \/ isQuizValidated
        \/ quizSettings = NullSettings
        \/ Len(editableQuiz) = 0
        \/ isLoading
        \/ isAddingMoreQuestions
     THEN /\ lastOp' = Op("handleAddMoreQuestions", "ignored")
          /\ UNCHANGED <<isAddingMoreQuestions, error, pending, contents,
                         jsonString>>
     ELSE /\ CanAwait(cap)
          /\ isAddingMoreQuestions' = TRUE
          /\ error' = NullError
          /\ pending' = Await(Request("more", NullId))
          /\ lastOp' = Op("handleAddMoreQuestions", "awaiting")
          /\ contents' = buildContentParts(
                            basePromptOf(quizSettings, numNewQuestions),
                            processedFilesOf(quizSettings))
          /\ jsonString' = NoText
  /\ UNCHANGED <<quizSettings, editableQuiz, isLoading, isQuizValidated,
                 regeneratingQuestionId, nextUuid, editors, edits,
                 selectedFiles,
                 currentPage, questionsPerPage>>

\* handleAddMoreQuestions up to its await, while requests do not overlap
HandleAddMoreQuestions(ui) == HandleAddMoreQuestionsUpTo(MaxPending, ui)

\* mutant: the number of questions asked for (numNewQuestions) is added
\* in place of the number received
AddNumNewQuestions(prevSettings, k) ==
  IF prevSettings = NullSettings THEN NullSettings
  ELSE [prevSettings EXCEPT !.numQuestions = @ + 10]

\* the updater passed to setQuizSettings when the new questions arrived
AddToNumQuestions(prevSettings, k) ==
  IF prevSettings = NullSettings THEN NullSettings
  ELSE [prevSettings EXCEPT !.numQuestions = @ + k]

\* handleAddMoreQuestions from the settled call to its end
AddMoreSettledWithin(maxId, maxLen, response) ==
  LET r == generateMoreQuestions(response, nextUuid)
      ok == ~r.threw /\ ~r.isNull /\ Len(r.questions) > 0
      quiz == IF ok THEN editableQuiz \o r.questions ELSE editableQuiz
  IN  /\ InFlight(Request("more", NullId))
      /\ nextUuid + UuidsUsed(r.questions) - 1 <= maxId
      /\ Len(quiz) <= maxLen
      /\ pending' = Settle(Request("more", NullId))
      /\ nextUuid' = nextUuid + UuidsUsed(r.questions)
      /\ editableQuiz' = quiz
      /\ currentPage' = PageAfter(ok)
      /\ UNCHANGED questionsPerPage
      /\ editors' = RenderCards(quiz, {})
      /\ quizSettings' = IF ok
                         THEN AddToNumQuestions(quizSettings, Len(r.questions))
                         ELSE quizSettings
      /\ error' = IF r.threw THEN "more: failed"
                  ELSE IF ok THEN error ELSE "more: failed"
      /\ isAddingMoreQuestions' = FALSE
      /\ lastOp' = Op("addMoreSettled",
                      IF r.threw THEN "threw"
                      ELSE IF ok THEN "appended" ELSE "empty")
      /\ jsonString' = TextOf(response)
      /\ UNCHANGED <<isLoading, isQuizValidated, regeneratingQuestionId,
                     edits, selectedFiles, contents>>

\* mutant: the flag is cleared after the try block in place of the finally
\* block, so a call that throws leaves it set
AddMoreSettledNoFinally(response) ==
  LET r == generateMoreQuestions(response, nextUuid)
      ok == ~r.threw /\ ~r.isNull /\ Len(r.questions) > 0
      quiz == IF ok THEN editableQuiz \o r.questions ELSE editableQuiz
  IN  /\ InFlight(Request("more", NullId))
      /\ nextUuid + UuidsUsed(r.questions) - 1 <= MaxId
      /\ Len(quiz) <= MaxQuizLen
      /\ pending' = Settle(Request("more", NullId))
      /\ nextUuid' = nextUuid + UuidsUsed(r.questions)
      /\ editableQuiz' = quiz
      /\ currentPage' = PageAfter(ok)
      /\ UNCHANGED questionsPerPage
      /\ editors' = RenderCards(quiz, {})
      /\ quizSettings' = IF ok
                         THEN AddToNumQuestions(quizSettings, Len(r.questions))
                         ELSE quizSettings
      /\ error' = IF r.threw THEN "more: failed"
                  ELSE IF ok THEN error ELSE "more: failed"
      /\ isAddingMoreQuestions' = (r.threw /\ isAddingMoreQuestions)
      /\ lastOp' = Op("addMoreSettled",
                      IF r.threw THEN "threw"
                      ELSE IF ok THEN "appended" ELSE "empty")
      /\ jsonString' = TextOf(response)
      /\ UNCHANGED <<isLoading, isQuizValidated, regeneratingQuestionId,
                     edits, selectedFiles, contents>>

\* the same while the list fits the first page
AddMoreSettled(response) ==
  AddMoreSettledWithin(MaxId, MaxQuizLen, response)

\* ------------------------------------------- App: validation and export
\* editableQuiz.every(q => q.options.some(opt => opt.isCorrect))
isValid(quiz) ==
  \A i \in 1..Len(quiz) : CorrectCount(quiz[i].options) > 0

\* mutant: the check of the empty list is missing
handleValidateQuizAnyList ==
  IF ~isValid(editableQuiz) THEN isQuizValidated ELSE TRUE

\* handleValidateQuiz: the flag it leaves
handleValidateQuiz ==
  IF Len(editableQuiz) = 0 THEN isQuizValidated
  ELSE IF ~isValid(editableQuiz) THEN isQuizValidated
  ELSE TRUE

\* QuizDisplay renders the validate button and enables it
ValidateOffered ==
  /\ Len(editableQuiz) > 0
  /\ ~isQuizValidated
  /\ ~(isAddingMoreQuestions \/ isLoading)

\* the validate button, or handleValidateQuiz called on its own
HandleValidateQuiz(ui) ==
  /\ ui => ValidateOffered
  /\ isQuizValidated' = handleValidateQuiz
  /\ lastOp' = Op("handleValidateQuiz",
                  IF Len(editableQuiz) = 0 THEN "empty"
                  ELSE IF ~isValid(editableQuiz) THEN "invalid"
                  ELSE "validated")
  /\ UNCHANGED <<quizSettings, editableQuiz, isLoading, isAddingMoreQuestions,
                 error, regeneratingQuestionId, pending, nextUuid, editors,
                 edits, selectedFiles, contents, jsonString,
                 currentPage, questionsPerPage>>

\* the answer key of a question: the positions of its correct options
AnswerKey(options) ==
  SelectSeq([i \in 1..Len(options) |-> i], LAMBDA i : options[i].isCorrect)

\* formatQuizToTxt: the header's total and, per question, its number, its
\* answer key (empty when no option is correct) and its option lines
formatQuizToTxt ==
  IF quizSettings = NullSettings \/ Len(editableQuiz) = 0
  THEN [file |-> TRUE, none |-> TRUE, total |-> 0, lines |-> <<>>]
  ELSE [file |-> TRUE, none |-> FALSE, total |-> Len(editableQuiz),
        lines |-> [i \in 1..Len(editableQuiz) |->
                     [number |-> i,
                      answerKey |-> AnswerKey(editableQuiz[i].options),
                      options |-> Len(editableQuiz[i].options)]]]

\* mutant: the check of isQuizValidated is missing
handleDownloadTxtUnguarded == formatQuizToTxt

\* handleDownloadTxt: the file it hands to the browser, if any
handleDownloadTxt ==
  IF ~isQuizValidated THEN NoFile ELSE formatQuizToTxt

\* QuizDisplay renders the download button in place of the validate button
DownloadOffered == Len(editableQuiz) > 0 /\ isQuizValidated

\* the download button, or handleDownloadTxt called on its own
HandleDownloadTxt(ui) ==
  /\ ui => DownloadOffered
  /\ lastOp' = [Op("handleDownloadTxt",
                   IF handleDownloadTxt = NoFile THEN "refused"
                   ELSE "downloaded")
                  EXCEPT !.file = handleDownloadTxt]
  /\ UNCHANGED <<quizSettings, editableQuiz, isLoading, isAddingMoreQuestions,
                 error, isQuizValidated, regeneratingQuestionId, pending,
                 nextUuid, editors, edits, selectedFiles, contents, jsonString,
                 currentPage, questionsPerPage>>

\* ------------------------------------------------ QuizDisplay: the pages
\* mutant: the test of handleNextPage is missing
handleNextPageAlways == currentPage + 1

\* handleNextPage: the page it leaves
handleNextPage ==
  IF currentPage < totalPages THEN currentPage + 1 ELSE currentPage

\* handlePrevPage: the page it leaves
handlePrevPage == IF currentPage > 1 THEN currentPage - 1 ELSE currentPage

PagesUnchanged ==
  UNCHANGED <<quizSettings, editableQuiz, isLoading, isAddingMoreQuestions,
              error, isQuizValidated, regeneratingQuestionId, pending,
              nextUuid, edits, selectedFiles, contents, jsonString>>

\* the next-page button, or handleNextPage called on its own, in a render
\* of a list that is not empty
HandleNextPage(ui) ==
  /\ Len(editableQuiz) > 0
  /\ ui => ~(currentPage = totalPages \/ isAddingMoreQuestions \/ isLoading)
  /\ currentPage' = handleNextPage
  /\ UNCHANGED questionsPerPage
  /\ editors' = RenderCards(editableQuiz, {})
  /\ lastOp' = Op("handleNextPage",
                  IF currentPage < totalPages THEN "moved" ELSE "stayed")
  /\ PagesUnchanged

\* the previous-page button, or handlePrevPage called on its own
HandlePrevPage(ui) ==
  /\ Len(editableQuiz) > 0
  /\ ui => ~(currentPage = 1 \/ isAddingMoreQuestions \/ isLoading)
  /\ currentPage' = handlePrevPage
  /\ UNCHANGED questionsPerPage
  /\ editors' = RenderCards(editableQuiz, {})
  /\ lastOp' = Op("handlePrevPage",
                  IF currentPage > 1 THEN "moved" ELSE "stayed")
  /\ PagesUnchanged

\* the select of the page size: handleQuestionsPerPageChange for an option
\* other than the selected one, then the useEffect on [quiz,
\* questionsPerPage]
HandleQuestionsPerPageChange(value) ==
  /\ Len(editableQuiz) > 0
  /\ ~(isAddingMoreQuestions \/ isLoading)
  /\ value # questionsPerPage
  /\ questionsPerPage' = value
  /\ currentPage' = 1
  /\ editors' = RenderCards(editableQuiz, {})
  /\ lastOp' = Op("handleQuestionsPerPageChange", "done")
  /\ PagesUnchanged

\* ---------------------------------------------------- QuestionEditorCard
AppUnchanged ==
  UNCHANGED <<quizSettings, isLoading, isAddingMoreQuestions, error,
              isQuizValidated, regeneratingQuestionId, pending, nextUuid,
              selectedFiles, contents, jsonString>>

\* the option ids a handler of the card of id may be handed
OptionIds(ui, id) ==
  IdsOf(editors[id].editedOptions) \cup (IF ui THEN {} ELSE {NullId})

\* handleQuestionTextChange
HandleQuestionTextChange(ui, budget, id, text) ==
  /\ CardRendered(id)
  /\ ui => ~isReadOnly
  /\ edits < budget
  /\ edits' = edits + 1
  /\ editors' = [editors EXCEPT ![id].editedQuestionText = text]
  /\ lastOp' = Op("handleQuestionTextChange", "done")
  /\ UNCHANGED <<editableQuiz, currentPage, questionsPerPage>>
  /\ AppUnchanged

\* editedOptions.map(opt => opt.id === optionId ? {...opt, text} : opt)
handleOptionTextChange(editedOptions, optionId, newText) ==
  [i \in 1..Len(editedOptions) |->
     IF editedOptions[i].id = optionId
     THEN [editedOptions[i] EXCEPT !.text = newText]
     ELSE editedOptions[i]]

\* the text input of an option
HandleOptionTextChange(ui, budget, id, optionId, newText) ==
  /\ CardRendered(id)
  /\ ui => ~isReadOnly /\ ~isRegenerating(id)
  /\ edits < budget
  /\ edits' = edits + 1
  /\ editors' = [editors EXCEPT ![id].editedOptions =
                   handleOptionTextChange(@, optionId, newText)]
  /\ lastOp' = Op("handleOptionTextChange", "done")
  /\ UNCHANGED <<editableQuiz, currentPage, questionsPerPage>>
  /\ AppUnchanged

\* mutant: the other options are not unchecked
handleOptionCorrectChangeOne(isMultipleChoice, editedOptions, optionId) ==
  LET targetOptionIndex == FindIndexById(editedOptions, optionId)
  IN  IF targetOptionIndex = 0 THEN editedOptions
      ELSE [editedOptions EXCEPT ![targetOptionIndex].isCorrect = ~@]

\* handleOptionCorrectChange: the edited options it leaves
handleOptionCorrectChange(isMultipleChoice, editedOptions, optionId) ==
  LET targetOptionIndex == FindIndexById(editedOptions, optionId)
      updatedOptions ==
        IF ~isMultipleChoice /\ ~editedOptions[targetOptionIndex].isCorrect
        THEN [i \in 1..Len(editedOptions) |->
                [editedOptions[i] EXCEPT !.isCorrect = FALSE]]
        ELSE editedOptions
  IN  IF targetOptionIndex = 0 THEN editedOptions
      ELSE [updatedOptions EXCEPT ![targetOptionIndex].isCorrect = ~@]

\* the checkbox of an option
HandleOptionCorrectChange(ui, budget, id, optionId) ==
  /\ CardRendered(id)
  /\ ui => ~isReadOnly /\ ~isRegenerating(id)
  /\ edits < budget
  /\ edits' = edits + 1
  /\ editors' = [editors EXCEPT ![id].editedOptions =
                   handleOptionCorrectChange(
                     QuestionById(editableQuiz, id).isMultipleChoice,
                     @, optionId)]
  /\ lastOp' = Op("handleOptionCorrectChange", "done")
  /\ UNCHANGED <<editableQuiz, currentPage, questionsPerPage>>
  /\ AppUnchanged

\* mutant: the limit is off by one
deleteOptionBelowTwo(editedOptions, optionId) ==
  IF Len(editedOptions) < 2 THEN editedOptions
  ELSE RemoveById(editedOptions, optionId)

\* deleteOption: the edited options it leaves
deleteOption(editedOptions, optionId) ==
  IF Len(editedOptions) <= 2 THEN editedOptions
  ELSE RemoveById(editedOptions, optionId)

\* the delete button of an option
DeleteOption(ui, budget, id, optionId) ==
  /\ CardRendered(id)
  /\ ui => /\ ~isReadOnly
           /\ ~(Len(editors[id].editedOptions) <= 2)
           /\ ~isRegenerating(id)
  /\ edits < budget
  /\ edits' = edits + 1
  /\ editors' = [editors EXCEPT ![id].editedOptions =
                   deleteOption(@, optionId)]
  /\ lastOp' = Op("deleteOption",
                  IF Len(editors[id].editedOptions) <= 2 THEN "refused"
                  ELSE "removed")
  /\ UNCHANGED <<editableQuiz, currentPage, questionsPerPage>>
  /\ AppUnchanged

\* mutant: the last correct option stays correct
KeepLastCorrect(editedOptions) ==
  [i \in 1..Len(editedOptions) |->
     IF editedOptions[i].isCorrect
        /\ \E j \in (i + 1)..Len(editedOptions) : editedOptions[j].isCorrect
     THEN [editedOptions[i] EXCEPT !.isCorrect = FALSE]
     ELSE editedOptions[i]]

\* the editedOptions.map of handleSaveChanges: only the first correct option
\* stays correct
KeepFirstCorrect(editedOptions) ==
  [i \in 1..Len(editedOptions) |->
     IF editedOptions[i].isCorrect
        /\ \E j \in 1..(i - 1) : editedOptions[j].isCorrect
     THEN [editedOptions[i] EXCEPT !.isCorrect = FALSE]
     ELSE editedOptions[i]]

\* mutant: the test of the option texts is missing
handleSaveChangesLax(question, editedQuestionText, editedOptions) ==
  LET correctOptionsCount == CorrectCount(editedOptions)
      rejected == [accepted |-> FALSE, corrected |-> FALSE,
                   question |-> question]
  IN  IF Trim(editedQuestionText) = "" THEN rejected
      ELSE IF correctOptionsCount = 0 THEN rejected
      ELSE IF ~question.isMultipleChoice /\ correctOptionsCount > 1
      THEN [accepted |-> TRUE, corrected |-> TRUE,
            question |-> [question EXCEPT
                            !.questionText = editedQuestionText,
                            !.options = KeepFirstCorrect(editedOptions)]]
      ELSE [accepted |-> TRUE, corrected |-> FALSE,
            question |-> [question EXCEPT
                            !.questionText = editedQuestionText,
                            !.options = editedOptions]]

\* handleSaveChanges: what it does with the card's state
\*   [accepted, corrected, question]
handleSaveChanges(question, editedQuestionText, editedOptions) ==
  LET correctOptionsCount == CorrectCount(editedOptions)
      rejected == [accepted |-> FALSE, corrected |-> FALSE,
                   question |-> question]
  IN  IF Trim(editedQuestionText) = "" THEN rejected
      ELSE IF \E i \in 1..Len(editedOptions) :
                Trim(editedOptions[i].text) = ""
      THEN rejected
      ELSE IF correctOptionsCount = 0 THEN rejected
      ELSE IF ~question.isMultipleChoice /\ correctOptionsCount > 1
      THEN [accepted |-> TRUE, corrected |-> TRUE,
            question |-> [question EXCEPT
                            !.questionText = editedQuestionText,
                            !.options = KeepFirstCorrect(editedOptions)]]
      ELSE [accepted |-> TRUE, corrected |-> FALSE,
            question |-> [question EXCEPT
                            !.questionText = editedQuestionText,
                            !.options = editedOptions]]

\* the blur of an input of the card of id: handleSaveChanges and, when it
\* accepts, onQuestionChange (handleUpdateQuestion of the store)
HandleSaveChanges(ui, id) ==
  LET save == handleSaveChanges(QuestionById(editableQuiz, id),
                                editors[id].editedQuestionText,
                                editors[id].editedOptions)
      kept == IF save.corrected
              THEN [editors EXCEPT ![id].editedOptions = save.question.options]
              ELSE editors
  IN  /\ CardRendered(id)
      /\ editableQuiz' = IF save.accepted
                         THEN handleUpdateQuestion(save.question)
                         ELSE editableQuiz
      /\ currentPage' = PageAfter(save.accepted /\ ~isQuizValidated)
      /\ UNCHANGED questionsPerPage
      /\ editors' = IF save.accepted /\ ~isQuizValidated
                    THEN RenderCards(editableQuiz', {id})
                    ELSE kept
      /\ lastOp' = Op("handleSaveChanges",
                      IF ~save.accepted THEN "rejected"
                      ELSE IF isQuizValidated THEN "ignored"
                      ELSE IF save.corrected THEN "corrected" ELSE "saved")
      /\ UNCHANGED edits
      /\ AppUnchanged

\* ------------------------------------------------------------- QuizForm
MAX_FILES == 5

MAX_FILE_SIZE_MB == 5

\* a File of the file input: its name and its size in bytes
File(name, size) == [name |-> name, size |-> size]

FileNames == {"a", "b"}

\* sizes of one byte, of 5 MB and of 5 MB and one byte
FileSizes ==
  {1, MAX_FILE_SIZE_MB * 1024 * 1024, MAX_FILE_SIZE_MB * 1024 * 1024 + 1}

\* event.target.files
NewFiles ==
  UNION { [1..n -> { File(name, size) : name \in FileNames,
                                        size \in FileSizes }] :
           n \in 1..MaxNewFiles }

\* array.slice(0, n)
Slice(array, n) == SubSeq(array, 1, IF Len(array) < n THEN Len(array) ELSE n)

\* mutant: the test of file.size is missing
RECURSIVE ValidFilesAnySize(_, _, _)
ValidFilesAnySize(newFiles, selected, validFiles) ==
  IF newFiles = <<>> THEN validFiles
  ELSE IF Len(selected) + Len(validFiles) >= MAX_FILES
  THEN ValidFilesAnySize(Tail(newFiles), selected, validFiles)
  ELSE ValidFilesAnySize(Tail(newFiles), selected,
                         Append(validFiles, Head(newFiles)))

\* validFiles after newFiles.forEach of handleFileChange
RECURSIVE ValidFiles(_, _, _)
ValidFiles(newFiles, selected, validFiles) ==
  IF newFiles = <<>> THEN validFiles
  ELSE IF Len(selected) + Len(validFiles) >= MAX_FILES
  THEN ValidFiles(Tail(newFiles), selected, validFiles)
  ELSE IF Head(newFiles).size > MAX_FILE_SIZE_MB * 1024 * 1024
  THEN ValidFiles(Tail(newFiles), selected, validFiles)
  ELSE ValidFiles(Tail(newFiles), selected,
                  Append(validFiles, Head(newFiles)))

\* handleFileChange: an alert is shown when a file of the selection is left
\* out
HandleFileChange(newFiles) ==
  LET validFiles == ValidFiles(newFiles, selectedFiles, <<>>)
  IN  /\ selectedFiles' = Slice(selectedFiles \o validFiles, MAX_FILES)
      /\ lastOp' = Op("handleFileChange",
                      IF Len(validFiles) < Len(newFiles) THEN "alerted"
                      ELSE "added")
      /\ UNCHANGED <<quizSettings, editableQuiz, isLoading,
                     isAddingMoreQuestions, error, isQuizValidated,
                     regeneratingQuestionId, pending, nextUuid, editors,
                     edits, contents, jsonString,
                     currentPage, questionsPerPage>>

\* handleRemoveFile
HandleRemoveFile(fileName) ==
  /\ selectedFiles'
       = SelectSeq(selectedFiles, LAMBDA file : file.name # fileName)
  /\ lastOp' = Op("handleRemoveFile", "done")
  /\ UNCHANGED <<quizSettings, editableQuiz, isLoading,
                 isAddingMoreQuestions, error, isQuizValidated,
                 regeneratingQuestionId, pending, nextUuid, editors,
                 edits, contents, jsonString,
                 currentPage, questionsPerPage>>

\* ------------------------------------------------------ specifications
\* the identifiers a handler called on its own may be handed
AnyIds == IdsOf(editableQuiz) \cup {NullId}

\* the questions handleUpdateQuestion called on its own may be handed
UpdatedQuestions ==
  { QuizQuestion(id, "edited", <<QuizOption(MaxId + 1, "yes", TRUE),
                                 QuizOption(MaxId + 2, "no", FALSE)>>, FALSE)
      : id \in AnyIds }

Settled ==
  \E response \in Responses :
    \/ GenerateQuizSettled(response)
    \/ AddMoreSettled(response)
    \/ \E id \in 1..MaxId : RegenerateSettled(id, response)

CardEvents(ui, budget) ==
  \E id \in IdsOf(editableQuiz) :
    \/ \E text \in Texts : HandleQuestionTextChange(ui, budget, id, text)
    \/ \E optionId \in OptionIds(ui, id), text \in Texts :
         HandleOptionTextChange(ui, budget, id, optionId, text)
    \/ \E optionId \in OptionIds(ui, id) :
         HandleOptionCorrectChange(ui, budget, id, optionId)
    \/ \E optionId \in OptionIds(ui, id) :
         DeleteOption(ui, budget, id, optionId)
    \/ HandleSaveChanges(ui, id)

\* the events of the rendered page
Next ==
  \/ \E settings \in Settings : HandleGenerateQuiz(TRUE, settings)
  \/ \E id \in IdsOf(editableQuiz) : HandleDeleteQuestion(TRUE, id)
  \/ \E id \in IdsOf(editableQuiz) :
       HandleRegenerateAlternativeQuestion(TRUE, id)
  \/ HandleAddMoreQuestions(TRUE)
  \/ HandleValidateQuiz(TRUE)
  \/ HandleDownloadTxt(TRUE)
  \/ CardEvents(TRUE, MaxEdits)
  \/ Settled

Spec == Init /\ [][Next]_vars

\* the synchronous handlers of App called in any state and with any argument
NextStore ==
  \/ \E settings \in Settings : HandleGenerateQuiz(TRUE, settings)
  \/ \E response \in Responses : GenerateQuizSettled(response)
  \/ \E updatedQuestion \in UpdatedQuestions :
       HandleUpdateQuestion(updatedQuestion)
  \/ \E id \in AnyIds : HandleDeleteQuestion(FALSE, id)
  \/ HandleValidateQuiz(FALSE)
  \/ HandleDownloadTxt(FALSE)

SpecStore == Init /\ [][NextStore]_vars

\* regenerations requested in any state and for any id, between the other
\* changes of the list
NextRegenerate ==
  \/ \E settings \in Settings : HandleGenerateQuiz(TRUE, settings)
  \/ \E response \in Responses : GenerateQuizSettled(response)
  \/ \E id \in AnyIds : HandleDeleteQuestion(FALSE, id)
  \/ \E id \in AnyIds : HandleRegenerateAlternativeQuestion(FALSE, id)
  \/ \E response \in Responses, id \in 1..MaxId :
       RegenerateSettled(id, response)

SpecRegenerate == Init /\ [][NextRegenerate]_vars

\* the handlers of the cards called in any state and with any argument
NextCards ==
  \/ \E settings \in Settings : HandleGenerateQuiz(TRUE, settings)
  \/ \E response \in Responses : GenerateQuizSettled(response)
  \/ HandleValidateQuiz(TRUE)
  \/ CardEvents(FALSE, MaxCardEdits)

SpecCards == Init /\ [][NextCards]_vars

\* add-more requests issued in any state, between the other changes of the
\* list
NextAddMore ==
  \/ \E settings \in Settings : HandleGenerateQuiz(TRUE, settings)
  \/ \E response \in Responses : GenerateQuizSettled(response)
  \/ \E id \in AnyIds : HandleDeleteQuestion(FALSE, id)
  \/ HandleAddMoreQuestions(FALSE)
  \/ \E response \in Responses : AddMoreSettled(response)

SpecAddMore == Init /\ [][NextAddMore]_vars

\* regenerations and add-more requests issued in any state
NextRequests ==
  \/ \E settings \in Settings : HandleGenerateQuiz(TRUE, settings)
  \/ \E response \in Responses : GenerateQuizSettled(response)
  \/ \E id \in AnyIds : HandleRegenerateAlternativeQuestion(FALSE, id)
  \/ \E response \in Responses, id \in 1..MaxId :
       RegenerateSettled(id, response)
  \/ HandleAddMoreQuestions(FALSE)
  \/ \E response \in Responses : AddMoreSettled(response)

SpecRequests == Init /\ [][NextRequests]_vars

\* generations whose response text is spelled out, or missing
NextParse ==
  \/ \E settings \in Settings : HandleGenerateQuiz(TRUE, settings)
  \/ \E response \in TextResponses \cup {Response("undefined", <<>>)} :
       GenerateQuizSettled(response)

SpecParse == Init /\ [][NextParse]_vars

\* requests built from settings with and without processed files
NextContents ==
  \/ \E settings \in Settings \cup FileSettings :
       HandleGenerateQuiz(TRUE, settings)
  \/ \E response \in {Response("reject", <<>>),
                        Response("array", <<JWellFormedSingle>>)} :
       GenerateQuizSettled(response)
  \/ HandleAddMoreQuestions(TRUE)
  \/ \E response \in {Response("reject", <<>>),
                        Response("array", <<JWellFormedSingle>>)} :
       AddMoreSettled(response)

SpecContents == Init /\ [][NextContents]_vars

\* selections and removals of files in the form
NextForm ==
  \/ \E newFiles \in NewFiles : HandleFileChange(newFiles)
  \/ \E fileName \in FileNames : HandleRemoveFile(fileName)

SpecForm == Init /\ [][NextForm]_vars

\* the requests the page lets a user issue while others are in flight
NextOverlap ==
  \/ \E settings \in Settings :
       HandleGenerateQuizUpTo(MaxOverlap, TRUE, settings)
  \/ \E response \in Responses : GenerateQuizSettled(response)
  \/ \E id \in IdsOf(editableQuiz) :
       HandleRegenerateAlternativeQuestionUpTo(MaxOverlap, TRUE, id)
  \/ \E id \in 1..MaxId, response \in Responses :
       RegenerateSettled(id, response)
  \/ HandleAddMoreQuestionsUpTo(MaxOverlap, TRUE)
  \/ \E response \in Responses : AddMoreSettled(response)

SpecOverlap == Init /\ [][NextOverlap]_vars

\* generations and batch additions whose responses are JSON arrays
NextMap ==
  \/ \E settings \in Settings : HandleGenerateQuiz(TRUE, settings)
  \/ \E response \in MapResponses : GenerateQuizSettled(response)
  \/ HandleAddMoreQuestions(TRUE)
  \/ \E response \in MapResponses : AddMoreSettled(response)

SpecMap == Init /\ [][NextMap]_vars

\* a list of n questions without options
Questions(n) == [i \in 1..n |-> JNoOptions]

\* calls that return as many questions as a page holds, or one more, and a
\* call that rejects
PageResponses ==
  { Response("reject", <<>>), Response("array", Questions(5)),
    Response("array", Questions(6)) }

\* the identifier of the first question of the page shown
FirstShown ==
  LET shown == currentQuestions(editableQuiz, currentPage, questionsPerPage)
  IN  IF shown = <<>> THEN {} ELSE {shown[1].id}

\* the list of several pages: generations, batch additions, the deletion of
\* the first question shown, its update by itself, and the controls of the
\* pages
NextPages ==
  \/ HandleGenerateQuiz(TRUE, [numQuestions |-> 6])
  \/ \E response \in PageResponses :
       GenerateQuizSettledWithin(MaxPagedId, MaxPagedLen, response)
  \/ HandleAddMoreQuestions(TRUE)
  \/ \E response \in PageResponses :
       AddMoreSettledWithin(MaxPagedId, MaxPagedLen, response)
  \/ \E id \in FirstShown : HandleDeleteQuestion(TRUE, id)
  \/ \E id \in FirstShown :
       HandleUpdateQuestion(QuestionById(editableQuiz, id))
  \/ \E ui \in BOOLEAN : HandleNextPage(ui)
  \/ \E ui \in BOOLEAN : HandlePrevPage(ui)
  \/ \E value \in PageSizes : HandleQuestionsPerPageChange(value)

SpecPages == Init /\ [][NextPages]_vars

\* generations whose response writes its LaTeX commands as the prompt asks
NextDoubled ==
  \/ \E settings \in Settings : HandleGenerateQuiz(TRUE, settings)
  \/ \E text \in DoubledDocuments :
       GenerateQuizSettled(Response("text", text))

SpecDoubled == Init /\ [][NextDoubled]_vars

\* a call that rejects, and calls that return one or two questions
IdResponses ==
  { Response("reject", <<>>), Response("array", <<JNoOptions>>),
    Response("array", <<JNoOptions, JNoOptions>>) }

\* every handler of App that sets the list, called in any state, one
\* request at a time: updates of a question by itself and of a question
\* that is not in the list, deletions and regenerations by any id
NextIds ==
  \/ HandleGenerateQuizUpTo(1, TRUE, [numQuestions |-> 2])
  \/ \E response \in IdResponses : GenerateQuizSettled(response)
  \/ \E id \in IdsOf(editableQuiz) :
       HandleUpdateQuestion(QuestionById(editableQuiz, id))
  \/ HandleUpdateQuestion(QuizQuestion(NullId, "", <<>>, FALSE))
  \/ \E id \in AnyIds : HandleDeleteQuestion(FALSE, id)
  \/ \E id \in AnyIds :
       HandleRegenerateAlternativeQuestionUpTo(1, FALSE, id)
  \/ \E response \in IdResponses, id \in 1..MaxId :
       RegenerateSettled(id, response)
  \/ HandleAddMoreQuestionsUpTo(1, FALSE)
  \/ \E response \in IdResponses : AddMoreSettled(response)

SpecIds == Init /\ [][NextIds]_vars

\* a call that rejects, one that returns no question and one that returns
\* a question
SomeResponses ==
  { Response("reject", <<>>), Response("array", <<>>),
    Response("array", <<JNoOptions>>) }

\* generations and batch additions for settings that give both numbers
NextCounts ==
  \/ \E settings \in CountSettings : HandleGenerateQuiz(TRUE, settings)
  \/ \E response \in SomeResponses : GenerateQuizSettled(response)
  \/ HandleAddMoreQuestions(TRUE)
  \/ \E response \in SomeResponses : AddMoreSettled(response)

SpecCounts == Init /\ [][NextCounts]_vars

\* requests whose service calls all settle
NextSettling ==
  \/ HandleGenerateQuiz(TRUE, [numQuestions |-> 1])
  \/ \E response \in SomeResponses : GenerateQuizSettled(response)
  \/ \E id \in IdsOf(editableQuiz) :
       HandleRegenerateAlternativeQuestion(TRUE, id)
  \/ \E id \in 1..MaxId, response \in SomeResponses :
       RegenerateSettled(id, response)
  \/ HandleAddMoreQuestions(TRUE)
  \/ \E response \in SomeResponses : AddMoreSettled(response)

\* every promise of the service settles
SpecSettling ==
  /\ Init /\ [][NextSettling]_vars
  /\ WF_vars(\E response \in SomeResponses : GenerateQuizSettled(response))
  /\ WF_vars(\E id \in 1..MaxId, response \in SomeResponses :
               RegenerateSettled(id, response))
  /\ WF_vars(\E response \in SomeResponses : AddMoreSettled(response))

\* ================================================================ claims
\* new is old without its element of the given id, the others in their order
RemovedExactly(old, new, id) ==
  IF id \in IdsOf(old)
  THEN \E k \in 1..Len(old) :
         /\ old[k].id = id
         /\ new = SubSeq(old, 1, k - 1) \o SubSeq(old, k + 1, Len(old))
  ELSE new = old

\* every variable of App and of the cards, lastOp apart
stateVars ==
  <<quizSettings, editableQuiz, isLoading, isAddingMoreQuestions, error,
    isQuizValidated, regeneratingQuestionId, pending, nextUuid, editors,
    edits, selectedFiles, contents, jsonString>>

\* C1: once the quiz is validated the question list stays identical in
\* every later state, until handleGenerateQuiz starts a new generation (which
\* clears isQuizValidated): no update, delete, regeneration or add-more
\* changes it, also when its request was issued before the validation.
C1_ValidatedListFrozen ==
  [][(isQuizValidated /\ isQuizValidated') => editableQuiz' = editableQuiz]_vars

\* C2: in every state in which the quiz is validated, each single-answer
\* question of the list has exactly one correct option.
C2_ValidatedSingleAnswerOneCorrect ==
  isQuizValidated =>
    \A i \in 1..Len(editableQuiz) :
      ~editableQuiz[i].isMultipleChoice =>
        CorrectCount(editableQuiz[i].options) = 1

\* C3: in every state in which the quiz is validated, each multi-answer
\* question of the list has at least two correct options.
C3_ValidatedMultiAnswerTwoCorrect ==
  isQuizValidated =>
    \A i \in 1..Len(editableQuiz) :
      editableQuiz[i].isMultipleChoice =>
        CorrectCount(editableQuiz[i].options) >= 2

\* C4: every question that enters the list (a question whose id was not in
\* the list before the step; only the AI responses bring new ids) has exactly
\* four options at the moment it is added.
C4_AddedQuestionHasFourOptions ==
  [][\A i \in 1..Len(editableQuiz') :
       editableQuiz'[i].id \notin IdsOf(editableQuiz) =>
         Len(editableQuiz'[i].options) = 4]_vars

\* C5: deleteOption leaves a list of two or fewer edited options unchanged
\* and otherwise removes exactly the option of the given id; it never takes
\* a list of at least two options below two, so the edited options of a
\* question stored with at least two options never number fewer than two.
C5_DeleteOptionKeepsTwo ==
  /\ [](\A id \in DOMAIN editors :
          Len(QuestionById(editableQuiz, id).options) >= 2 =>
            Len(editors[id].editedOptions) >= 2)
  /\ [][lastOp'.op = "deleteOption" =>
        \A id \in DOMAIN editors :
          \A optionId \in OptionIds(FALSE, id) :
            DeleteOption(FALSE, MaxCardEdits, id, optionId) =>
              LET old == editors[id].editedOptions
                  new == editors'[id].editedOptions
              IN  /\ Len(old) <= 2 => new = old
                  /\ Len(old) > 2 => RemovedExactly(old, new, optionId)
                  /\ Len(old) >= 2 => Len(new) >= 2
                  /\ \A other \in DOMAIN editors \ {id} :
                       editors'[other] = editors[other]]_vars

\* C5 witness: a card whose question has more than two options was brought
\* down to two edited options, and a further deleteOption was refused
C5_Witness ==
  /\ lastOp = Op("deleteOption", "refused")
  /\ \E id \in DOMAIN editors :
       /\ Len(editors[id].editedOptions) = 2
       /\ Len(QuestionById(editableQuiz, id).options) > 2

\* C6: handleValidateQuiz sets isQuizValidated only when the list is
\* non-empty and every question has at least one correct option; otherwise
\* the flag stays false; the list is the same after it in every case.
C6_ValidateOnlyAnsweredQuiz ==
  [][HandleValidateQuiz(FALSE) =>
       LET answered ==
             /\ Len(editableQuiz) > 0
             /\ \A i \in 1..Len(editableQuiz) :
                  \E j \in 1..Len(editableQuiz[i].options) :
                    editableQuiz[i].options[j].isCorrect
       IN  /\ editableQuiz' = editableQuiz
           /\ (~isQuizValidated /\ isQuizValidated') => answered
           /\ (~isQuizValidated /\ ~answered) => ~isQuizValidated']_vars

\* C6 witness: handleValidateQuiz ran on a list with a question that has no
\* correct option and the quiz is not validated
C6_Witness ==
  /\ lastOp = Op("handleValidateQuiz", "invalid")
  /\ ~isQuizValidated
  /\ Len(editableQuiz) > 1

\* C7: a text file is produced only in a state where the quiz is
\* validated; handleDownloadTxt called on a quiz that is not validated
\* produces no file and changes no state; the download button is offered
\* only on a validated quiz.
C7_ExportOnlyWhenValidated ==
  /\ [](lastOp.file # NoFile => isQuizValidated)
  /\ [](DownloadOffered => isQuizValidated)
  /\ [][(HandleDownloadTxt(FALSE) /\ ~isQuizValidated) =>
          (lastOp'.file = NoFile /\ UNCHANGED stateVars)]_vars

\* C7 witness: handleDownloadTxt was called on a non-empty quiz that is not
\* validated and refused
C7_Witness ==
  /\ lastOp = Op("handleDownloadTxt", "refused")
  /\ ~isQuizValidated
  /\ Len(editableQuiz) > 0

\* C8: handleUpdateQuestion on a quiz that is not validated replaces the
\* element whose id is the updated question's id, and only it: the length,
\* the order and every other question are kept, and for an id that is not
\* in the list the list is unchanged.
C8_UpdateReplacesOneQuestion ==
  [][lastOp'.op = "handleUpdateQuestion" =>
     \A updatedQuestion \in UpdatedQuestions :
       (HandleUpdateQuestion(updatedQuestion) /\ ~isQuizValidated) =>
         /\ Len(editableQuiz') = Len(editableQuiz)
         /\ \A i \in 1..Len(editableQuiz) :
              /\ editableQuiz[i].id = updatedQuestion.id =>
                   editableQuiz'[i] = updatedQuestion
              /\ editableQuiz[i].id # updatedQuestion.id =>
                   editableQuiz'[i] = editableQuiz[i]
         /\ Cardinality({i \in 1..Len(editableQuiz) :
                           editableQuiz'[i] # editableQuiz[i]}) <= 1
         /\ updatedQuestion.id \notin IdsOf(editableQuiz) =>
              editableQuiz' = editableQuiz]_vars

\* C8 witness: handleUpdateQuestion replaced one question of a list of
\* three that is not validated
C8_Witness ==
  /\ lastOp = Op("handleUpdateQuestion", "replaced")
  /\ ~isQuizValidated
  /\ Len(editableQuiz) = 3
  /\ \E i \in 1..3 : editableQuiz[i].questionText = "edited"

\* C9: handleDeleteQuestion on a quiz that is not validated removes exactly
\* the question of the given id, keeps the others in their order and leaves
\* quizSettings, numQuestions included, unchanged.
C9_DeleteRemovesOneQuestion ==
  [][lastOp'.op = "handleDeleteQuestion" =>
     \A questionId \in AnyIds :
       (HandleDeleteQuestion(FALSE, questionId) /\ ~isQuizValidated) =>
         /\ RemovedExactly(editableQuiz, editableQuiz', questionId)
         /\ quizSettings' = quizSettings]_vars

\* C9 witness: handleDeleteQuestion removed a question of a generated quiz
\* and two questions remain
C9_Witness ==
  /\ lastOp = Op("handleDeleteQuestion", "removed")
  /\ Len(editableQuiz) = 2
  /\ quizSettings # NullSettings

\* C10: when the regeneration of question X returns a question (the step
\* settles the request of X with a parsed question) and X is in the list at
\* completion time, the list becomes the list at completion time with the
\* new question, of a fresh id, right after X (X kept, one element more, the
\* others in their order); when X is no longer in the list, the list is
\* unchanged.
C10_RegeneratedInsertedAfterOriginal ==
  [][(lastOp'.op = "regenerateSettled"
        /\ lastOp'.outcome \in {"inserted", "absent"}) =>
       \A x \in 1..MaxId :
         (InFlight(Request("regenerate", x))
            /\ pending' = Settle(Request("regenerate", x))) =>
           IF x \in IdsOf(editableQuiz)
           THEN \E k \in 1..Len(editableQuiz) :
                  /\ editableQuiz[k].id = x
                  /\ Len(editableQuiz') = Len(editableQuiz) + 1
                  /\ SubSeq(editableQuiz', 1, k) = SubSeq(editableQuiz, 1, k)
                  /\ editableQuiz'[k + 1].id = nextUuid
                  /\ SubSeq(editableQuiz', k + 2, Len(editableQuiz'))
                       = SubSeq(editableQuiz, k + 1, Len(editableQuiz))
           ELSE editableQuiz' = editableQuiz]_vars

\* C10 witness: a regenerated question was inserted between two questions
C10_Witness ==
  /\ lastOp = Op("regenerateSettled", "inserted")
  /\ Len(editableQuiz) = 3
  /\ editableQuiz[2].id > editableQuiz[1].id
  /\ editableQuiz[2].id > editableQuiz[3].id

\* C11: when an add-more request returns k >= 1 questions, the list becomes
\* the list at completion time followed by the k questions in the returned
\* order, and quizSettings.numQuestions grows by exactly k.
C11_AddMoreAppendsAndCounts ==
  [][lastOp'.op = "addMoreSettled" =>
     \A response \in Responses :
       LET r == generateMoreQuestions(response, nextUuid)
           k == Len(r.questions)
       IN  (AddMoreSettled(response) /\ ~r.threw /\ ~r.isNull /\ k >= 1) =>
             /\ Len(editableQuiz') = Len(editableQuiz) + k
             /\ SubSeq(editableQuiz', 1, Len(editableQuiz)) = editableQuiz
             /\ \A i \in 1..k :
                  editableQuiz'[Len(editableQuiz) + i] = r.questions[i]
             /\ quizSettings'.numQuestions = quizSettings.numQuestions + k
             /\ \A f \in DOMAIN quizSettings \ {"numQuestions"} :
                  quizSettings'[f] = quizSettings[f]]_vars

\* C11 witness: an add-more request returned two questions, which were
\* appended to a list of one question, and the settings count them
C11_Witness ==
  /\ lastOp = Op("addMoreSettled", "appended")
  /\ Len(editableQuiz) = 3
  /\ editableQuiz[1].id < editableQuiz[2].id
  /\ editableQuiz[2].id < editableQuiz[3].id
  /\ quizSettings # NullSettings
  /\ quizSettings.numQuestions >= 3

\* C12: when a regeneration or an add-more request throws or returns no
\* question (lastOp records the outcome "threw" or "empty" of the settled
\* request), the list and quizSettings are unchanged, error is a message and
\* the indicator of the request (regeneratingQuestionId,
\* isAddingMoreQuestions) is cleared.
C12_FailedRequestLeavesQuiz ==
  [][(lastOp'.op \in {"regenerateSettled", "addMoreSettled"}
        /\ lastOp'.outcome \in {"threw", "empty"}) =>
       /\ editableQuiz' = editableQuiz
       /\ quizSettings' = quizSettings
       /\ error' # NullError
       /\ lastOp'.op = "regenerateSettled" => regeneratingQuestionId' = NullId
       /\ lastOp'.op = "addMoreSettled" => ~isAddingMoreQuestions']_vars

\* C12 witness: an add-more request failed on a list of two questions whose
\* error had been cleared by the request
C12_Witness ==
  /\ lastOp \in {Op("addMoreSettled", "threw"), Op("addMoreSettled", "empty")}
  /\ Len(editableQuiz) = 2
  /\ error # NullError
  /\ ~isAddingMoreQuestions

\* the characters of a text joined into a string
RECURSIVE Concat(_)
Concat(chars) ==
  IF chars = <<>> THEN "" ELSE Head(chars) \o Concat(Tail(chars))

\* every backslash of body starts a command of two or more letters
IsLatexBody(body) ==
  /\ body # <<>>
  /\ \A i \in 1..Len(body) :
       /\ body[i] \in BodyChars
       /\ body[i] = "\\" => LetterRun(SubSeq(body, i + 1, Len(body))) >= 2

\* the characters of the question text and of the option text of a document
QuestionBodyOf(text) ==
  LET mid == IndexOf(text, OptionOpen)
  IN  IF mid > 0 THEN SubSeq(text, 2, mid - 1)
      ELSE SubSeq(text, 2, Len(text) - 1)

OptionBodyOf(text) ==
  SubSeq(text, IndexOf(text, OptionOpen) + 1, Len(text) - 1)

HasOption(text) == IndexOf(text, OptionOpen) > 0

\* a JSON array of one question, but for its LaTeX commands, all written
\* with a single backslash
IsLatexDocument(text) ==
  /\ Len(text) >= 2
  /\ text[1] = QuestionOpen
  /\ IF HasOption(text)
     THEN text[Len(text)] = OptionClose /\ IsLatexBody(OptionBodyOf(text))
     ELSE text[Len(text)] = QuestionClose
  /\ IsLatexBody(QuestionBodyOf(text))

\* C13: for a response that is a JSON array but for its LaTeX commands of
\* two or more letters, written with a single backslash, parseGeneratedQuiz
\* returns the question, whose text and option text are the texts of the
\* response, each command preceded by exactly one backslash; the question
\* becomes the list.
C13_LatexCommandsKeepOneBackslash ==
  [][(lastOp'.op = "generateQuizSettled" /\ IsLatexDocument(jsonString')) =>
       LET r == parseGeneratedQuiz(Response("text", jsonString'), nextUuid)
       IN  /\ ~r.threw /\ ~r.isNull
           /\ Len(r.questions) = 1
           /\ r.questions[1].questionText
                = Concat(QuestionBodyOf(jsonString'))
           /\ HasOption(jsonString') =>
                /\ Len(r.questions[1].options) = 1
                /\ r.questions[1].options[1].text
                     = Concat(OptionBodyOf(jsonString'))
           /\ lastOp'.outcome = "set"
           /\ editableQuiz' = r.questions]_vars

\* C13 witness: the response held \fa in its question text and \af in its
\* option text, and the question of the list holds both with one backslash
C13_Witness ==
  /\ lastOp = Op("generateQuizSettled", "set")
  /\ jsonString = QuestionOptionDocument(<<"\\", "f", "a">>,
                                         <<"\\", "a", "f">>)
  /\ Len(editableQuiz) = 1
  /\ editableQuiz[1].questionText = "\\fa"
  /\ editableQuiz[1].options[1].text = "\\af"

\* the fenced responses, and for each the fences and contents it is made of
FencedJsonStrings ==
  { Wrap(w, content) : w \in Wrappers, content \in FenceContents }

WrappingsOf ==
  [text \in FencedJsonStrings |->
     { p \in Wrappers \X FenceContents : Wrap(p[1], p[2]) = text }]

\* the content is itself a fenced text, or starts with the letters json right
\* after an opening fence without tag
ContentReadAsFence(w, content) ==
  \/ fenceRegex(trim(content)).matched
  \/ /\ w.tag = <<>> /\ w.after = <<>>
     /\ startsWith(toLowerCase(content), <<"j", "s", "o", "n">>)

\* C14 as stated: parseGeneratedQuiz gives the same result for a response
\* wrapped in a code fence as for the fenced content alone, whatever the
\* content.
C14_FencedAsContent ==
  [][(lastOp'.op = "generateQuizSettled"
      /\ jsonString' \in FencedJsonStrings) =>
       \A p \in WrappingsOf[jsonString'] :
         parseGeneratedQuiz(Response("text", jsonString'), nextUuid)
           = parseGeneratedQuiz(Response("text", p[2]), nextUuid)]_vars

\* C14 amended: parseGeneratedQuiz gives the same result for a response
\* wrapped in a code fence (three backticks, optionally followed by json in
\* any letter case, and a closing three backticks, with surrounding
\* whitespace) as for the fenced content alone, provided the content is not
\* itself a fenced text and does not start with the letters json right after
\* an opening fence without tag.
C14_FencedAsPlainContent ==
  [][(lastOp'.op = "generateQuizSettled"
      /\ jsonString' \in FencedJsonStrings) =>
       \A p \in WrappingsOf[jsonString'] :
         ~ContentReadAsFence(p[1], p[2]) =>
           parseGeneratedQuiz(Response("text", jsonString'), nextUuid)
             = parseGeneratedQuiz(Response("text", p[2]), nextUuid)]_vars

\* C14 witness: the response was a question between padded fences tagged
\* JSON, and the list holds the question
C14_Witness ==
  /\ lastOp = Op("generateQuizSettled", "set")
  /\ jsonString
       = Wrap([padded |-> TRUE, tag |-> <<"J", "S", "O", "N">>,
               after |-> <<" ", "\n">>, before |-> <<"\n", " ">>],
              QuestionDocument(<<"\\", "f", "a">>))
  /\ Len(editableQuiz) = 1
  /\ editableQuiz[1].questionText = "\\fa"
  /\ editableQuiz[1].options = <<>>

\* what JSON.parse makes of a response text once the fences are stripped and
\* the backslashes doubled
ParsedText(text) == JSONParse(processedJsonString(cleanJsonString(text)))

\* the text is not JSON, or its top-level value is not an array, or an
\* element of the array is null, so that reading its properties throws
Unreadable(text) ==
  \/ ParsedText(text).kind \in {"notjson", "nonarray"}
  \/ /\ ParsedText(text).kind = "array"
     /\ \E i \in 1..Len(ParsedText(text).body) :
          ~ParsedText(text).body[i].isObject

\* C15: parseGeneratedQuiz never throws; for a text that is not parseable
\* JSON, for JSON whose top-level value is not an array and for an array with
\* an element that cannot be read, it returns null, and handleGenerateQuiz
\* then leaves the list as it was and sets an error.
C15_NeverThrowsNullIfUnreadable ==
  [][lastOp'.op = "generateQuizSettled" =>
       LET response == IF jsonString' = NoText
                       THEN Response("undefined", <<>>)
                       ELSE Response("text", jsonString')
           r == parseGeneratedQuiz(response, nextUuid)
       IN  /\ ~r.threw
           /\ (jsonString' # NoText /\ Unreadable(jsonString')) =>
                /\ r.isNull
                /\ lastOp'.outcome = "empty"
                /\ editableQuiz' = editableQuiz
                /\ error' # NullError]_vars

\* the positions of the images with content among files, and the k-th
ImagePositions(files) ==
  { i \in 1..Len(files) :
      files[i].originalType = "image" /\ files[i].content # "" }

NthImagePosition(files, k) ==
  CHOOSE i \in ImagePositions(files) :
    Cardinality({ j \in ImagePositions(files) : j < i }) = k - 1

\* C16: the contents of a request built by buildContentParts are the bare
\* prompt string when no processed file is an image with content; otherwise
\* they are a list of parts: the prompt text first, then one inline-data part
\* per image with content, in the order of the files, with its MIME type and
\* its content; files of other types and images without content give no part.
C16_ContentsOfRequest ==
  contents # NoContents =>
    LET files == processedFilesOf(quizSettings).files
        n == Cardinality(ImagePositions(files))
    IN  IF n = 0
        THEN contents = [isString |-> TRUE, text |-> Prompt]
        ELSE /\ ~contents.isString
             /\ Len(contents.parts) = 1 + n
             /\ contents.parts[1] = [text |-> Prompt]
             /\ \A k \in 1..n :
                  contents.parts[k + 1]
                    = [inlineData |->
                         [mimeType |-> files[NthImagePosition(files, k)].type,
                          data |->
                            files[NthImagePosition(files, k)].content]]

\* C16 witness: a request was sent for a JPEG image followed by a PNG image,
\* and its contents are the prompt, the JPEG part and the PNG part
C16_Witness ==
  /\ lastOp = Op("handleAddMoreQuestions", "awaiting")
  /\ processedFilesOf(quizSettings).defined
  /\ ~contents.isString
  /\ quizSettings.processedFiles
       = <<ProcessedFile("j", "image/jpeg", "image", "data"),
           ProcessedFile("i", "image/png", "image", "data")>>
  /\ contents.parts
       = <<[text |-> Prompt],
           [inlineData |-> [mimeType |-> "image/jpeg", data |-> "data"]],
           [inlineData |-> [mimeType |-> "image/png", data |-> "data"]]>>

\* earlier is a prefix of later
IsPrefix(earlier, later) ==
  /\ Len(earlier) <= Len(later)
  /\ SubSeq(later, 1, Len(earlier)) = earlier

\* C17: after every selection and removal of files the list of selected
\* files holds at most 5 files and none larger than 5 MB; a selection keeps
\* the files already selected at the head of the list, in their order,
\* whether or not one of its files was left out.
C17_SelectedFilesWithinLimits ==
  [][/\ Len(selectedFiles') <= 5
     /\ \A i \in 1..Len(selectedFiles') :
          selectedFiles'[i].size <= 5 * 1024 * 1024
     /\ lastOp'.op = "handleFileChange" =>
          IsPrefix(selectedFiles, selectedFiles')]_vars

\* C17 witness: a selection was made with four files selected, one of its
\* files was left out and the four files are still the first of five
C17_Witness ==
  /\ lastOp = Op("handleFileChange", "alerted")
  /\ Len(selectedFiles) = 5
  /\ \A i \in 1..4 : selectedFiles[i] = File("a", 1)
  /\ selectedFiles[5] = File("b", 5 * 1024 * 1024)

\* the positions of the correct options
CorrectPositions(options) ==
  { i \in 1..Len(options) : options[i].isCorrect }

\* new is old but for the isCorrect flags
SameButFlags(old, new) ==
  /\ Len(new) = Len(old)
  /\ \A i \in 1..Len(old) :
       new[i].id = old[i].id /\ new[i].text = old[i].text

\* the least element of a non-empty set of positions
Least(positions) == CHOOSE i \in positions : \A j \in positions : i <= j

\* C18: every question that handleSaveChanges passes to the store for a
\* single-answer question has exactly one correct option, whatever the
\* edited options were: with no correct option the save is rejected and the
\* list unchanged; with several, only the first correct option in list order
\* stays correct; the question stored by the save is the one passed.
C18_SavedSingleAnswerOneCorrect ==
  [][lastOp'.op = "handleSaveChanges" =>
       \A id \in DOMAIN editors :
         (/\ HandleSaveChanges(FALSE, id)
          /\ ~QuestionById(editableQuiz, id).isMultipleChoice) =>
           LET old == editors[id].editedOptions
               save == handleSaveChanges(QuestionById(editableQuiz, id),
                                         editors[id].editedQuestionText, old)
           IN  /\ CorrectCount(old) = 0 =>
                    /\ ~save.accepted
                    /\ lastOp'.outcome = "rejected"
                    /\ editableQuiz' = editableQuiz
               /\ save.accepted =>
                    /\ SameButFlags(old, save.question.options)
                    /\ CorrectPositions(save.question.options)
                         = {Least(CorrectPositions(old))}
               /\ lastOp'.outcome \in {"saved", "corrected"} =>
                    /\ save.accepted
                    /\ QuestionById(editableQuiz', id) = save.question
                    /\ CorrectCount(QuestionById(editableQuiz', id).options)
                         = 1]_vars

\* C18 witness: a single-answer question with several correct options was
\* saved after an edit, and it is stored with its first option as the only
\* correct one
C18_Witness ==
  /\ lastOp = Op("handleSaveChanges", "corrected")
  /\ edits >= 1
  /\ \E i \in 1..Len(editableQuiz) :
       /\ ~editableQuiz[i].isMultipleChoice
       /\ Len(editableQuiz[i].options) >= 2
       /\ CorrectPositions(editableQuiz[i].options) = {1}
       /\ editableQuiz[i].questionText = "x"

\* C19: the edited options of a single-answer question stored with at most
\* one correct option have at most one correct option after every toggle;
\* handleOptionCorrectChange on an unchecked option of such a card leaves it
\* the only correct one, and on the correct option leaves none correct.
C19_TogglesKeepOneCorrect ==
  /\ [](\A id \in DOMAIN editors :
          (/\ ~QuestionById(editableQuiz, id).isMultipleChoice
           /\ CorrectCount(QuestionById(editableQuiz, id).options) <= 1) =>
            CorrectCount(editors[id].editedOptions) <= 1)
  /\ [][lastOp'.op = "handleOptionCorrectChange" =>
        \A id \in DOMAIN editors :
          \A optionId \in IdsOf(editors[id].editedOptions) :
            (/\ HandleOptionCorrectChange(FALSE, MaxCardEdits, id, optionId)
             /\ ~QuestionById(editableQuiz, id).isMultipleChoice
             /\ CorrectCount(editors[id].editedOptions) <= 1) =>
              LET old == editors[id].editedOptions
                  new == editors'[id].editedOptions
                  k == FindIndexById(old, optionId)
              IN  /\ SameButFlags(old, new)
                  /\ CorrectPositions(new)
                       = IF old[k].isCorrect THEN {} ELSE {k}]_vars

\* C19 witness: an option other than the stored correct one was checked on
\* the card of a single-answer question, and it is the only one checked
C19_Witness ==
  /\ lastOp = Op("handleOptionCorrectChange", "done")
  /\ \E id \in DOMAIN editors :
       /\ ~QuestionById(editableQuiz, id).isMultipleChoice
       /\ CorrectPositions(QuestionById(editableQuiz, id).options) = {2}
       /\ CorrectPositions(editors[id].editedOptions) = {1}

\* a text of the card is blank or no edited option is correct
Unsaveable(editor) ==
  \/ Trim(editor.editedQuestionText) = ""
  \/ \E i \in 1..Len(editor.editedOptions) :
       Trim(editor.editedOptions[i].text) = ""
  \/ CorrectCount(editor.editedOptions) = 0

\* C20: handleSaveChanges does not call the store update when the edited
\* question text is blank, an edited option text is blank or no edited option
\* is correct, and the list is then unchanged; the other handlers of a card
\* leave the list unchanged, so that a deletion or a toggle reaches the list
\* only through a later save that is accepted.
C20_RejectedSaveKeepsStore ==
  [][/\ lastOp'.op = "handleSaveChanges" =>
          \A id \in DOMAIN editors :
            (HandleSaveChanges(FALSE, id) /\ Unsaveable(editors[id])) =>
              /\ ~handleSaveChanges(QuestionById(editableQuiz, id),
                                    editors[id].editedQuestionText,
                                    editors[id].editedOptions).accepted
              /\ lastOp'.outcome = "rejected"
              /\ editableQuiz' = editableQuiz
     /\ lastOp'.op \in {"deleteOption", "handleOptionCorrectChange",
                        "handleOptionTextChange",
                        "handleQuestionTextChange"} =>
          editableQuiz' = editableQuiz
     /\ (lastOp'.op = "handleSaveChanges"
         /\ editableQuiz' # editableQuiz) =>
          lastOp'.outcome \in {"saved", "corrected"}]_vars

\* C20 witness: a save was rejected on a card with a blank option text whose
\* toggle has not reached the stored question
C20_Witness ==
  /\ lastOp = Op("handleSaveChanges", "rejected")
  /\ \E id \in DOMAIN editors :
       /\ \E i \in 1..Len(editors[id].editedOptions) :
            editors[id].editedOptions[i].text = " "
       /\ CorrectCount(editors[id].editedOptions) >= 1
       /\ CorrectPositions(editors[id].editedOptions)
            # CorrectPositions(QuestionById(editableQuiz, id).options)
       /\ \A i \in 1..Len(QuestionById(editableQuiz, id).options) :
            QuestionById(editableQuiz, id).options[i].text # " "

\* C21: after a generation request completes with no other request in
\* flight, the list is exactly the list of questions returned when that list
\* is non-empty, and is empty with a non-null error when the service threw or
\* returned null or an empty list; in both cases the quiz is not validated
\* and isLoading is false.
C21_GenerationSetsList ==
  [][(lastOp'.op = "generateQuizSettled" /\ pending' = EmptyBag) =>
       \A response \in Responses :
         GenerateQuizSettled(response) =>
           LET r == generateQuiz(response, nextUuid)
           IN  /\ IF ~r.threw /\ ~r.isNull /\ r.questions # <<>>
                  THEN editableQuiz' = r.questions
                  ELSE editableQuiz' = <<>> /\ error' # NullError
               /\ ~isQuizValidated'
               /\ ~isLoading']_vars

\* a regeneration request is in flight
RegenerationInFlight(requests) ==
  \E id \in 1..MaxId : BagIn(Request("regenerate", id), requests)

\* C26: the questions returned by an add-more request are appended only to
\* the quiz the request was issued for: a response that arrives while a new
\* generation is loading (handleAddMoreQuestions starts no request then, so
\* the request was issued for the quiz before) adds no question to the list
\* and leaves the settings, numQuestions included, as the new generation set
\* them.
C26_LateAddMoreDropped ==
  [][(lastOp'.op = "addMoreSettled" /\ isLoading) =>
       /\ editableQuiz' = editableQuiz
       /\ quizSettings' = quizSettings]_vars

\* C27: regeneratingQuestionId is null only when no regeneration request is
\* in flight: after a regeneration is started or completes, the indicator is
\* non-null as long as the regeneration of some question is pending.
C27_IndicatorWhilePending ==
  [][(lastOp'.op \in {"handleRegenerateAlternativeQuestion",
                      "regenerateSettled"}
      /\ RegenerationInFlight(pending')) =>
       regeneratingQuestionId' # NullId]_vars

\* C22: when every call of the service settles, every generation,
\* regeneration and add-more request in flight is followed by the end of its
\* handler with its indicator cleared (isLoading, regeneratingQuestionId,
\* isAddingMoreQuestions), whether the call returned questions, returned
\* none or failed.
C22_IndicatorsCleared ==
  /\ InFlight(Request("generate", NullId))
       ~> (lastOp.op = "generateQuizSettled" /\ ~isLoading)
  /\ RegenerationInFlight(pending)
       ~> (lastOp.op = "regenerateSettled"
           /\ regeneratingQuestionId = NullId)
  /\ InFlight(Request("more", NullId))
       ~> (lastOp.op = "addMoreSettled" /\ ~isAddingMoreQuestions)

\* C22 witness: a regeneration failed, no request is left in flight and no
\* indicator is set
C22_Witness ==
  /\ lastOp = Op("regenerateSettled", "threw")
  /\ pending = EmptyBag
  /\ regeneratingQuestionId = NullId
  /\ ~isLoading /\ ~isAddingMoreQuestions
  /\ Len(editableQuiz) > 0

\* the text of the prompt in the contents of a request
PromptOf(request) ==
  IF request.isString THEN request.text ELSE request.parts[1].text

\* the integer nearest to numerator / divisor, a half upwards
RoundHalfUp(numerator, divisor) ==
  (2 * numerator + divisor) \div (2 * divisor)

\* C23: the prompt of a generation for n >= 1 questions with a percentage p
\* in 0..100, and of a batch addition (n = 10), asks for round(n * p / 100)
\* multi-answer questions, halves rounded up, and for n minus that many
\* single-answer questions: both counts lie in 0..n and sum to n.
C23_CountsRequested ==
  [][(/\ lastOp'.op \in {"handleGenerateQuiz", "handleAddMoreQuestions"}
      /\ lastOp'.outcome = "awaiting"
      /\ "multipleChoicePercentage" \in DOMAIN quizSettings')
     => LET n == IF lastOp'.op = "handleGenerateQuiz"
                 THEN quizSettings'.numQuestions ELSE 10
            p == quizSettings'.multipleChoicePercentage
            multiple == RoundHalfUp(n * p, 100)
        IN  /\ multiple \in 0..n
            /\ n - multiple \in 0..n
            /\ PromptOf(contents') = PromptFor(multiple, n - multiple)]_vars

\* the text the claim gives a question or an option: the text of the
\* response, or the fallback when the text is missing or empty
TextOrFallback(text, fallback) ==
  IF text \in {"undefined", ""} THEN fallback ELSE text

\* the boolean a JSON value is coerced to
AsBoolean(v) == v \notin {"undefined", "false", ""}

\* the questions one per element of a JSON array, as the claim gives them
\* but for their identifiers
IsMappingOf(questions, parsed) ==
  /\ Len(questions) = Len(parsed)
  /\ \A i \in 1..Len(parsed) :
       /\ questions[i].questionText
            = TextOrFallback(parsed[i].questionText,
                             "Question " \o ToString(i) \o " sans texte")
       /\ questions[i].isMultipleChoice
            = AsBoolean(parsed[i].isMultipleChoice)
       /\ IF parsed[i].optionsIsArray
          THEN /\ Len(questions[i].options) = Len(parsed[i].options)
               /\ \A j \in 1..Len(parsed[i].options) :
                    /\ questions[i].options[j].text
                         = TextOrFallback(parsed[i].options[j].text,
                                          "Option vide")
                    /\ questions[i].options[j].isCorrect
                         = AsBoolean(parsed[i].options[j].isCorrect)
          ELSE questions[i].options = <<>>

\* the JSON array has a null element, or a null element in an options array
HasNull(parsed) ==
  \E i \in 1..Len(parsed) :
    \/ ~parsed[i].isObject
    \/ \E j \in 1..Len(parsed[i].options) : ~parsed[i].options[j].isObject

\* C24 as stated: for a JSON array response, parseGeneratedQuiz returns one
\* question per element, in the same order, with the options in the same
\* order, isCorrect and isMultipleChoice coerced to booleans, a missing or
\* empty questionText replaced by 'Question N sans texte' (N the 1-based
\* position), a missing or empty option text by 'Option vide', and options
\* that are not an array by an empty list.
C24_OnePerElement ==
  [][\A response \in MapResponses :
       GenerateQuizSettled(response) \/ AddMoreSettled(response)
         => LET r == parseGeneratedQuiz(response, nextUuid)
            IN  /\ ~r.threw /\ ~r.isNull
                /\ IsMappingOf(r.questions, response.body)]_vars

\* C24 amended: the same for a JSON array none of whose elements, and none
\* of whose options, is null; the questions returned by a generation are
\* the new list, those returned by a batch addition its last questions.
C24_OnePerNonNullElement ==
  [][\A response \in MapResponses :
       /\ ~HasNull(response.body)
       /\ GenerateQuizSettled(response) \/ AddMoreSettled(response)
       => LET r == parseGeneratedQuiz(response, nextUuid)
              k == Len(r.questions)
              n == Len(editableQuiz')
          IN  /\ ~r.threw /\ ~r.isNull
              /\ IsMappingOf(r.questions, response.body)
              /\ k <= n
              /\ k > 0 => SubSeq(editableQuiz', n - k + 1, n) = r.questions
              /\ lastOp'.op = "generateQuizSettled" /\ k > 0 => n = k]_vars

\* C24 witness: a generation returned a question without text, a question
\* and another question without text, and the list holds 'Question 1 sans
\* texte', the second question with its two options, 'Question 3 sans texte'
C24_Witness ==
  /\ lastOp = Op("generateQuizSettled", "set")
  /\ Len(editableQuiz) = 3
  /\ editableQuiz[1].questionText = "Question 1 sans texte"
  /\ editableQuiz[1].options = <<>>
  /\ editableQuiz[2].questionText = "Q"
  /\ editableQuiz[2].isMultipleChoice
  /\ Len(editableQuiz[2].options) = 2
  /\ editableQuiz[2].options[1].text = "a"
  /\ editableQuiz[2].options[1].isCorrect
  /\ ~editableQuiz[2].options[2].isCorrect
  /\ editableQuiz[3].questionText = "Question 3 sans texte"

\* the smallest integer that is at least numerator / divisor
Ceiling(numerator, divisor) ==
  CHOOSE c \in 0..numerator :
    c * divisor >= numerator /\ (c - 1) * divisor < numerator

\* the list or the page size changes, or the list is replaced by an update
ListOrPageSizeChanges ==
  \/ editableQuiz' # editableQuiz
  \/ questionsPerPage' # questionsPerPage
  \/ lastOp' = Op("handleUpdateQuestion", "replaced")

C28_ValidatedHasAnswerKeys ==
  isQuizValidated =>
    /\ \A i \in 1..Len(editableQuiz) :
         CorrectCount(editableQuiz[i].options) > 0
    /\ ~formatQuizToTxt.none
    /\ formatQuizToTxt.total = Len(editableQuiz)
    /\ Len(formatQuizToTxt.lines) = Len(editableQuiz)
    /\ \A i \in 1..Len(editableQuiz) :
         /\ formatQuizToTxt.lines[i].number = i
         /\ formatQuizToTxt.lines[i].answerKey # <<>>

\* JSON.parse of the response without the step that doubles backslashes
ParsedAsReceived(text) == JSONParse(cleanJsonString(text))

\* C29: a response that is valid JSON, with every LaTeX command written with
\* a doubled backslash as the prompt instructs, is parsed by
\* parseGeneratedQuiz to the question and option texts that parsing it
\* without the backslash-doubling step gives: the step neither makes the
\* parse fail nor changes a text.
C29_DoubledBackslashesUntouched ==
  [][(/\ lastOp'.op = "generateQuizSettled"
      /\ jsonString' \in DoubledDocuments
      /\ ParsedAsReceived(jsonString').kind = "array")
     => LET r == parseGeneratedQuiz(Response("text", jsonString'), nextUuid)
            received == ParsedAsReceived(jsonString').body
        IN  /\ ~r.threw /\ ~r.isNull
            /\ r.questions = MapQuestions(received, 0, nextUuid)
            /\ editableQuiz' = r.questions]_vars

\* the lists that are quiz without one of its questions
WithoutOne(quiz) ==
  { SubSeq(quiz, 1, k - 1) \o SubSeq(quiz, k + 1, Len(quiz)) :
      k \in 1..Len(quiz) }

\* C30: in every reachable state the ids of the questions of the list are
\* pairwise distinct, so an update by id replaces at most one question and
\* leaves the others, and a delete by id removes exactly one question.
C30_QuestionIdsDistinct ==
  /\ [](\A i, j \in 1..Len(editableQuiz) :
          i # j => editableQuiz[i].id # editableQuiz[j].id)
  /\ [][/\ lastOp'.op \in {"handleUpdateQuestion", "handleSaveChanges"}
           => /\ Len(editableQuiz') = Len(editableQuiz)
              /\ Cardinality({ i \in 1..Len(editableQuiz) :
                                 editableQuiz'[i] # editableQuiz[i] }) <= 1
        /\ lastOp' = Op("handleDeleteQuestion", "removed")
           => editableQuiz' \in WithoutOne(editableQuiz)]_vars

\* C30 witness: a question was regenerated in a list of two questions, and
\* the first of the three questions was then deleted
C30_Witness ==
  /\ lastOp = Op("handleDeleteQuestion", "removed")
  /\ Len(editableQuiz) = 2
  /\ nextUuid > 3
  /\ editableQuiz[1].id > editableQuiz[2].id

====
